---- MODULE Spec2Model ----
(***************************************************************************)
(* Model of the account / transaction subsystem of package ievm:          *)
(* gas-parameter resolution (ProcessGasParams), the two transaction        *)
(* builders (BuildLegacy, BuildDynamic) with the dynamic-first fallback    *)
(* (BuildTxWithGas, SendContractMethod) and the submit / poll / confirm    *)
(* protocol (SendTx, SendTxWithRetry).                                     *)
(*                                                                         *)
(* The program is synchronous: one call runs on the caller's thread.  The  *)
(* model keeps the Go call stack explicitly (stack), one frame per active  *)
(* function, and takes one step per statement group that ends in a remote  *)
(* call; the node's answer to that call is drawn by \E.                    *)
(***************************************************************************)
EXTENDS Integers, Sequences, FiniteSets, TLC

\* ------------------------------------------------------------------ bounds
MaxPrice == 2        \* node suggestions and explicit prices range over 0..MaxPrice
MaxGas == 2          \* gas estimates and explicit gas limits range over 0..MaxGas
MaxNonce == 1        \* pending nonces and nonce overrides range over 0..MaxNonce
MaxRetriesArg == 2   \* SendTxWithRetry is called with maxRetries in -1..MaxRetriesArg
ClockSlack == 1      \* the clock runs this many seconds past the deadline
MaxQuote == 11       \* gas prices quoted to the strategy functions range over 0..MaxQuote
MaxGoroutines == 2   \* goroutines that use one account at the same time
MaxIndex == 1        \* account indexes range over -1..MaxIndex
MaxChainID == 2      \* chain ids an endpoint reports range over 1..MaxChainID
MaxConstructions == 2 \* distinct accounts kept in the construction history
MaxBlock == 2        \* block numbers the node answers with range over 0..MaxBlock
MaxConfirmations == 2 \* confirmations asked for range over -1..MaxConfirmations
MaxDecimals == 6     \* decimal places asked of ToDecimalsFloat range over 0..MaxDecimals

\* ------------------------------------------------------- program constants
WaitTimeout == 30      \* seconds, context.WithTimeout(ctx, 30*time.Second)
PollInterval == 1      \* seconds, time.NewTicker(1 * time.Second)
DefaultMaxRetries == 3 \* maxRetries = 3 when maxRetries <= 0
AddrDigits == 40       \* the {40} of the address pattern
\* type GasStrategy int, const ( ... iota ... )
GasStrategyAuto == 0
GasStrategyFast == 1
GasStrategyStandard == 2
GasStrategySlow == 3

MaxNow == WaitTimeout + ClockSlack
ConfirmTimeout == 300  \* seconds, context.WithTimeout(..., 5*time.Minute)
ConfirmInterval == 2   \* seconds, time.NewTicker(2 * time.Second)
ConfirmMaxNow == ConfirmTimeout + ClockSlack

\* ----------------------------------------------------------------- values
Nil == -1                     \* a nil *big.Int / nil *uint64
EmptyStr == <<>>              \* the Go string ""
Rep(c, n) == [k \in 1..n |-> c]

\* Strings are sequences of one-character strings.
HexDigits == {"0","1","2","3","4","5","6","7","8","9",
              "a","b","c","d","e","f","A","B","C","D","E","F"}

AddrValid == <<"0","x">> \o Rep("a", 40)
AddrUpper == <<"0","x">> \o Rep("B", 40)
AddrShort == <<"0","x">> \o Rep("a", 39)

\* regexp ^0x[0-9a-fA-F]{40}$ applied to a string
IsValidAddress(s) ==
    /\ Len(s) = 42
    /\ s[1] = "0"
    /\ s[2] = "x"
    /\ \A k \in 3..42 : s[k] \in HexDigits

LowerHex(c) ==
    CASE c = "A" -> "a" [] c = "B" -> "b" [] c = "C" -> "c"
      [] c = "D" -> "d" [] c = "E" -> "e" [] c = "F" -> "f"
      [] OTHER -> c

\* common.HexToAddress on a string that passed IsValidAddress: the 20 bytes,
\* written as 40 lower-case hex digits (letter case carries no information).
HexToAddress(s) == [k \in 1..40 |-> LowerHex(s[k + 2])]

NoAddress == <<>>             \* a nil *common.Address (contract creation)
ZeroAddress == Rep("0", 40)   \* common.Address{}

\* tx.Hash(): distinct transactions have distinct hashes; common.Hash{} is
\* the hash of no transaction.
NoTx == [type |-> "nil"]
Hash(t) == <<"hash", t>>
ZeroHash == <<"hash", NoTx>>

\* Errors: msg is the chain of messages, the innermost error last (each
\* fmt.Errorf("...: %w", err) prepends its context); hash is the transaction
\* hash formatted into the message, ZeroHash when the message carries none;
\* addr is the address string formatted into it, EmptyStr when there is none.
NilErr == [msg |-> <<>>, hash |-> ZeroHash, addr |-> EmptyStr]
Err(kind) == [msg |-> <<kind>>, hash |-> ZeroHash, addr |-> EmptyStr]
Wrap(ctx, e) == [msg |-> <<ctx>> \o e.msg, hash |-> e.hash, addr |-> e.addr]

ErrSubmit == Err("SendTransaction rejected")
ErrTimeout(h) ==
    [msg |-> <<"wait for inclusion timed out">>, hash |-> h, addr |-> EmptyStr]
ErrStatusFailed(h) ==
    [msg |-> <<"execution failed (status=0)">>, hash |-> h, addr |-> EmptyStr]
ErrInvalidAddr(what, a) == [msg |-> <<what>>, hash |-> ZeroHash, addr |-> a]
ErrNotFound == Err("ethereum.NotFound")
ErrTransport == Err("transport failure")
ErrDeadlineExceeded == Err("context deadline exceeded")

\* Signed transactions.  The signature is a function of the unsigned fields,
\* the signer and the key, so a signed transaction is identified by them.
LegacyTx(nonce, to, value, gas, gasPrice, data, chainID) ==
    [type |-> "legacy", nonce |-> nonce, to |-> to, value |-> value,
     gas |-> gas, gasPrice |-> gasPrice, data |-> data,
     chainID |-> chainID, signer |-> "EIP155"]

DynamicFeeTx(nonce, to, value, gas, tipCap, feeCap, data, chainID) ==
    [type |-> "dynamic", nonce |-> nonce, to |-> to, value |-> value,
     gas |-> gas, tipCap |-> tipCap, feeCap |-> feeCap, data |-> data,
     chainID |-> chainID, signer |-> "London"]

VARIABLES
    acc,         \* the IAccount: [chainID, address]
    stack,       \* the call stack, innermost frame last
    ret,         \* what the function that returned last handed to its caller
    call,        \* the top-level call in progress or finished: [fn, ...args]
    calls,       \* history: the builders invoked, in order, with their results
    rpcLog,      \* history: the account's query methods called while resolving
                 \* parameters, [name, ok, remote]
    sent,        \* history: transactions given to SendTransaction, [tx, ok]
    outcomes,    \* history: the error of every SendTx that returned
    sleeps,      \* history: the time.Sleep durations (seconds) of SendTxWithRetry
    now,         \* seconds since the running SendTx created waitCtx
    tickerC,     \* a tick is waiting in ticker.C (channel of capacity 1)
    lastAnswer,  \* answer to the last receipt query of the running / last
                 \* SendTx, "none" while it has made no query
    pendingNonce, \* the node: the pending nonce of the account's address
    workers,     \* goroutines sharing the account, each building or sending
                 \* one transaction: [pc, kind, mode, nonce, tx, err]
    constructed  \* history: the accounts the constructors returned, each with
                 \* the call that produced it

vars == <<acc, stack, ret, call, calls, rpcLog, sent, outcomes, sleeps,
          now, tickerC, lastAnswer, pendingNonce, workers, constructed>>

\* what the operations of one call on the connected account never touch
aside == <<acc, pendingNonce, workers, constructed>>

NoRet == [fn |-> "none"]
NoCall == [fn |-> "none"]

Top == stack[Len(stack)]
Running(fn, pc) == Len(stack) > 0 /\ Top.fn = fn /\ Top.pc = pc
Idle == stack = <<>> /\ call.fn = "none"
Done == stack = <<>> /\ call.fn # "none"

Pop == SubSeq(stack, 1, Len(stack) - 1)
\* replace the innermost frame
SetTop(f) == Append(Pop, f)
\* the innermost frame moves to pc and calls a function (pushes its frame)
CallFrom(f, callee) == Append(SetTop(f), callee)


\* ================================================================ SendTx

\* faulty variant: waitCtx never expires (a context without deadline)
CtxDone_Never == FALSE

\* waitCtx.Done() is closed: WaitTimeout seconds have passed since
\* context.WithTimeout created waitCtx.
CtxDone == now >= WaitTimeout

\* What EInnerClient.TransactionReceipt(waitCtx, hash) can answer.  A call
\* made with, or overtaken by, the expired waitCtx fails with the context's
\* error.  ethclient turns "no error and no receipt" into ethereum.NotFound,
\* so a nil receipt with a nil error is not among the answers.
ReceiptAnswers ==
    IF CtxDone THEN {"DeadlineExceeded"}
    ELSE {"NotFound", "Success", "Failed", "TransportErr"}

\* the err value of that answer
ReceiptErr(ans) ==
    CASE ans = "NotFound" -> ErrNotFound
      [] ans = "TransportErr" -> ErrTransport
      [] ans = "DeadlineExceeded" -> ErrDeadlineExceeded
      [] OTHER -> NilErr

\* faulty variant: a failed receipt is reported with the timeout error
ReceiptResult_AsTimeout(status, h) ==
    IF status = "Failed" THEN ErrTimeout(h) ELSE NilErr

\* faulty variant: the receipt status is not looked at
ReceiptResult_IgnoreStatus(status, h) == NilErr

\* the error SendTx returns for a receipt it found
ReceiptResult(status, h) ==
    IF status = "Failed" THEN ErrStatusFailed(h) ELSE NilErr

\* faulty variant: the error of SendTransaction is ignored
AfterSubmit_IgnoreError(ok) == "query"

\* where SendTx goes after SendTransaction answered
AfterSubmit(ok) == IF ok THEN "query" ELSE "return"

\* faulty variant: every error of the receipt query is polled over
AfterQuery_PollOnAnyError(e) == IF e # NilErr THEN "select" ELSE "return"

\* where SendTx goes after TransactionReceipt answered with err e
AfterQuery(e) == IF e = ErrNotFound THEN "select" ELSE "return"

SendTxFrame(t) == [fn |-> "SendTx", pc |-> "submit", tx |-> t]

ReturnSendTx(h, e) ==
    /\ stack' = Pop
    /\ ret' = [fn |-> "SendTx", hash |-> h, err |-> e]
    /\ outcomes' = Append(outcomes, e)

\* SendTransaction, then waitCtx and the ticker are created
SendTx_Submit ==
    /\ Running("SendTx", "submit")
    /\ \E ok \in BOOLEAN :
        /\ sent' = Append(sent, [tx |-> Top.tx, ok |-> ok])
        /\ IF AfterSubmit(ok) = "return"
           THEN ReturnSendTx(ZeroHash, ErrSubmit)
           ELSE /\ stack' = SetTop([Top EXCEPT !.pc = "query"])
                /\ UNCHANGED <<ret, outcomes>>
    /\ now' = 0
    /\ tickerC' = FALSE
    /\ lastAnswer' = "none"
    /\ UNCHANGED <<aside, call, calls, rpcLog, sleeps>>

\* one TransactionReceipt call of the poll loop and the branches on its result
SendTx_Query ==
    /\ Running("SendTx", "query")
    /\ \E ans \in ReceiptAnswers :
        LET e == ReceiptErr(ans)
            h == Hash(Top.tx)
        IN  /\ lastAnswer' = ans
            /\ IF AfterQuery(e) = "select"
               THEN /\ stack' = SetTop([Top EXCEPT !.pc = "select"])
                    /\ UNCHANGED <<ret, outcomes>>
               ELSE IF e # NilErr
               THEN ReturnSendTx(h, e)
               ELSE ReturnSendTx(h, ReceiptResult(ans, h))
    /\ UNCHANGED <<aside, call, calls, rpcLog, sent, sleeps, now, tickerC>>

\* select { case <-waitCtx.Done(): ...; case <-ticker.C: continue }
\* when both are ready Go takes either
SendTx_Select ==
    /\ Running("SendTx", "select")
    /\ \/ /\ CtxDone
          /\ ReturnSendTx(Hash(Top.tx), ErrTimeout(Hash(Top.tx)))
          /\ UNCHANGED tickerC
       \/ /\ tickerC
          /\ tickerC' = FALSE
          /\ stack' = SetTop([Top EXCEPT !.pc = "query"])
          /\ UNCHANGED <<ret, outcomes>>
    /\ UNCHANGED <<aside, call, calls, rpcLog, sent, sleeps, now, lastAnswer>>

\* a second passes while SendTx is in its poll loop; the ticker delivers a
\* tick every PollInterval seconds, dropped when one is still waiting
AdvanceClock ==
    /\ Len(stack) > 0
    /\ Top.fn = "SendTx"
    /\ Top.pc \in {"query", "select"}
    /\ now < MaxNow
    /\ now' = now + 1
    /\ tickerC' = IF (now + 1) % PollInterval = 0 THEN TRUE ELSE tickerC
    /\ UNCHANGED <<aside, stack, ret, call, calls, rpcLog, sent, outcomes,
                   sleeps, lastAnswer>>

\* ======================================================= SendTxWithRetry

RetryLimit(n) == IF n <= 0 THEN DefaultMaxRetries ELSE n

\* faulty variant: a constant delay between attempts
RetryDelay_Constant(i) == 1

\* time.Sleep(time.Duration(i+1) * time.Second), in seconds
RetryDelay(i) == i + 1

\* the transaction attempt i submits
RetryTx(t, i) == t

\* for i := 0; i < maxRetries; i++ { hash, err := a.SendTx(tx)
SendTxWithRetry_Loop ==
    /\ Running("SendTxWithRetry", "loop")
    /\ IF Top.i < Top.maxRetries
       THEN /\ stack' = CallFrom([Top EXCEPT !.pc = "afterSend"],
                                 SendTxFrame(RetryTx(Top.tx, Top.i)))
            /\ ret' = NoRet
       ELSE /\ stack' = Pop
            /\ ret' = [fn |-> "SendTxWithRetry", hash |-> ZeroHash,
                       err |-> Wrap("still failing after retries", Top.lastErr)]
    /\ UNCHANGED <<aside, call, calls, rpcLog, sent, outcomes, sleeps, now,
                   tickerC, lastAnswer>>

\* the rest of the loop body, after SendTx returned
SendTxWithRetry_AfterSend ==
    /\ Running("SendTxWithRetry", "afterSend")
    /\ ret.fn = "SendTx"
    /\ IF ret.err = NilErr
       THEN /\ stack' = Pop
            /\ ret' = [fn |-> "SendTxWithRetry", hash |-> ret.hash,
                       err |-> NilErr]
            /\ UNCHANGED sleeps
       ELSE /\ sleeps' = IF Top.i < Top.maxRetries - 1
                         THEN Append(sleeps, RetryDelay(Top.i))
                         ELSE sleeps
            /\ stack' = SetTop([Top EXCEPT !.pc = "loop", !.i = Top.i + 1,
                                           !.lastErr = ret.err])
            /\ ret' = NoRet
    /\ UNCHANGED <<aside, call, calls, rpcLog, sent, outcomes, now, tickerC,
                   lastAnswer>>

\* ================================================= the account's queries

\* Outcome of a query method: the value, the error, and what it adds to
\* rpcLog.  remote says whether the node was called.
RpcOk(name, v) ==
    [val |-> v, err |-> NilErr,
     log |-> <<[name |-> name, ok |-> TRUE, remote |-> TRUE]>>]
RpcFail(name) ==
    [val |-> 0, err |-> Err(name),
     log |-> <<[name |-> name, ok |-> FALSE, remote |-> TRUE]>>]
\* the method failed in its own validation, before any remote call
LocalFail(name, e) ==
    [val |-> 0, err |-> e,
     log |-> <<[name |-> name, ok |-> FALSE, remote |-> FALSE]>>]
\* the caller supplied the value: no query is made
Given(v) == [val |-> v, err |-> NilErr, log |-> <<>>]

\* a.Nonce(address): PendingNonceAt
NonceOutcomes(address) ==
    IF ~IsValidAddress(address)
    THEN {LocalFail("Nonce", ErrInvalidAddr("invalid address", address))}
    ELSE {RpcOk("Nonce", n) : n \in 0..MaxNonce} \cup {RpcFail("Nonce")}

\* a.SuggestGasPrice()
SuggestGasPriceOutcomes ==
    {RpcOk("SuggestGasPrice", p) : p \in 0..MaxPrice}
        \cup {RpcFail("SuggestGasPrice")}

\* a.SuggestGasTipCap()
SuggestGasTipCapOutcomes ==
    {RpcOk("SuggestGasTipCap", p) : p \in 0..MaxPrice}
        \cup {RpcFail("SuggestGasTipCap")}

\* a.EstimateGas(from, to, value, data): a node never estimates 0 gas
EstimateGasOutcomes(from, to) ==
    IF from # EmptyStr /\ ~IsValidAddress(from)
    THEN {LocalFail("EstimateGas", ErrInvalidAddr("invalid from address", from))}
    ELSE IF to # EmptyStr /\ ~IsValidAddress(to)
    THEN {LocalFail("EstimateGas", ErrInvalidAddr("invalid to address", to))}
    ELSE {RpcOk("EstimateGas", g) : g \in 1..MaxGas}
            \cup {RpcFail("EstimateGas")}

\* ====================================================== ProcessGasParams

NoParams == [nil |-> TRUE]    \* a nil *GasParams

\* faulty variant: a failed estimate is replaced by a default limit
ResolveGasLimit_Guess(gasLimit, est) ==
    IF gasLimit = 0
    THEN IF est.err # NilErr
         THEN [limit |-> MaxGas, err |-> NilErr]
         ELSE [limit |-> est.val, err |-> NilErr]
    ELSE [limit |-> gasLimit, err |-> NilErr]

\* the gas limit ProcessGasParams settles on; est is the outcome of
\* a.EstimateGas, consulted only when gasLimit is 0
ResolveGasLimit(gasLimit, est) ==
    IF gasLimit = 0
    THEN IF est.err # NilErr
         THEN [limit |-> 0, err |-> Wrap("estimate gas limit failed", est.err)]
         ELSE [limit |-> est.val, err |-> NilErr]
    ELSE [limit |-> gasLimit, err |-> NilErr]

ProcessGasParamsFrame(gasLimit, gasPrice, to, value, data) ==
    [fn |-> "ProcessGasParams", pc |-> "gasLimit", gasLimit |-> gasLimit,
     gasPrice |-> gasPrice, to |-> to, value |-> value, data |-> data,
     finalGasLimit |-> 0]

ProcessGasParams_GasLimit ==
    /\ Running("ProcessGasParams", "gasLimit")
    /\ \E est \in (IF Top.gasLimit = 0
                   THEN EstimateGasOutcomes(acc.address, Top.to)
                   ELSE {Given(Top.gasLimit)}) :
        LET r == ResolveGasLimit(Top.gasLimit, est)
        IN  /\ rpcLog' = rpcLog \o est.log
            /\ IF r.err # NilErr
               THEN /\ stack' = Pop
                    /\ ret' = [fn |-> "ProcessGasParams", params |-> NoParams,
                               err |-> r.err]
               ELSE /\ stack' = SetTop([Top EXCEPT !.pc = "gasPrice",
                                                   !.finalGasLimit = r.limit])
                    /\ UNCHANGED ret
    /\ UNCHANGED <<aside, call, calls, sent, outcomes, sleeps, now, tickerC,
                   lastAnswer>>

ProcessGasParams_GasPrice ==
    /\ Running("ProcessGasParams", "gasPrice")
    /\ \E sug \in (IF Top.gasPrice = Nil
                   THEN SuggestGasPriceOutcomes
                   ELSE {Given(Top.gasPrice)}) :
        /\ rpcLog' = rpcLog \o sug.log
        /\ stack' = Pop
        /\ ret' = IF sug.err # NilErr
                  THEN [fn |-> "ProcessGasParams", params |-> NoParams,
                        err |-> Wrap("suggest gas price failed", sug.err)]
                  ELSE [fn |-> "ProcessGasParams",
                        params |-> [GasLimit |-> Top.finalGasLimit,
                                    GasPrice |-> sug.val],
                        err |-> NilErr]
    /\ UNCHANGED <<aside, call, calls, sent, outcomes, sleeps, now, tickerC,
                   lastAnswer>>

\* ========================================================== the builders

Builders == {"BuildDynamic", "BuildLegacy"}

CallEntry(fn) == [fn |-> fn, done |-> FALSE, tx |-> NoTx, err |-> NilErr]

\* a builder returns (tx, err) to its caller
BuilderReturn(fn, t, e) ==
    /\ stack' = Pop
    /\ ret' = [fn |-> fn, tx |-> t, err |-> e]
    /\ calls' = [calls EXCEPT ![Len(calls)] =
                    [fn |-> fn, done |-> TRUE, tx |-> t, err |-> e]]

\* var toPtr *common.Address; set when to is not empty
ToPtr(to) == IF to = EmptyStr THEN NoAddress ELSE HexToAddress(to)

\* BuildLegacy(acc, to, value, data, gasLimit, gasPrice, nonceOpt); acc is
\* the connected account, so the "client not initialised" return is not taken
BuildLegacyFrame(to, value, data, gasLimit, gasPrice, nonceOpt) ==
    [fn |-> "BuildLegacy", pkg |-> "ievm", pc |-> "start", to |-> to,
     value |-> value, data |-> data, gasLimit |-> gasLimit,
     gasPrice |-> gasPrice, nonceOpt |-> nonceOpt, toPtr |-> NoAddress,
     nonce |-> 0]

\* BuildLegacy of package evm: the same statements up to the construction of
\* the unsigned transaction
EvmBuildLegacyFrame(to, value, data, gasLimit, gasPrice, nonceOpt) ==
    [BuildLegacyFrame(to, value, data, gasLimit, gasPrice, nonceOpt)
        EXCEPT !.pkg = "evm"]

\* the recipient of the unsigned legacy transaction.  Package ievm uses
\* NewContractCreation when toPtr is nil; package evm builds
\* NewTransaction(nonce, common.Address{}, ...) and replaces it only when
\* toPtr is set.
LegacyTo(pkg, toPtr) ==
    IF pkg = "evm" /\ toPtr = NoAddress THEN ZeroAddress ELSE toPtr

\* BuildDynamic(acc, to, value, data, gasLimit, maxFeePerGas,
\*              maxPriorityFeePerGas, nonceOpt), acc connected likewise
BuildDynamicFrame(to, value, data, gasLimit, maxFeePerGas, maxPriorityFeePerGas, nonceOpt) ==
    [fn |-> "BuildDynamic", pc |-> "start", to |-> to, value |-> value,
     data |-> data, gasLimit |-> gasLimit, maxFeePerGas |-> maxFeePerGas,
     maxPriorityFeePerGas |-> maxPriorityFeePerGas,
     nonceOpt |-> nonceOpt, toPtr |-> NoAddress, nonce |-> 0]

\* the address check and the nonce, the same code in both builders
BuilderStart(fn, next) ==
    /\ Running(fn, "start")
    /\ IF Top.to # EmptyStr /\ ~IsValidAddress(Top.to)
       THEN /\ BuilderReturn(fn, NoTx,
                             ErrInvalidAddr("invalid to address", Top.to))
            /\ UNCHANGED rpcLog
       ELSE \E n \in (IF Top.nonceOpt # Nil
                      THEN {Given(Top.nonceOpt)}
                      ELSE NonceOutcomes(acc.address)) :
                /\ rpcLog' = rpcLog \o n.log
                /\ IF n.err # NilErr
                   THEN BuilderReturn(fn, NoTx, n.err)
                   ELSE /\ stack' = SetTop([Top EXCEPT !.pc = next,
                                               !.toPtr = ToPtr(Top.to),
                                               !.nonce = n.val])
                        /\ UNCHANGED <<ret, calls>>
    /\ UNCHANGED <<aside, call, sent, outcomes, sleeps, now, tickerC,
                   lastAnswer>>

BuildLegacy_Start == BuilderStart("BuildLegacy", "gasPrice")

BuildLegacy_GasPrice ==
    /\ Running("BuildLegacy", "gasPrice")
    /\ \E sug \in (IF Top.gasPrice = Nil
                   THEN SuggestGasPriceOutcomes
                   ELSE {Given(Top.gasPrice)}) :
        /\ rpcLog' = rpcLog \o sug.log
        /\ IF sug.err # NilErr
           THEN BuilderReturn("BuildLegacy", NoTx, sug.err)
           ELSE /\ stack' = SetTop([Top EXCEPT !.pc = "gasLimit",
                                               !.gasPrice = sug.val])
                /\ UNCHANGED <<ret, calls>>
    /\ UNCHANGED <<aside, call, sent, outcomes, sleeps, now, tickerC,
                   lastAnswer>>

\* the gas limit, then the unsigned transaction and SignTx with
\* the EIP-155 signer of acc.ChainID, which cannot fail for a legacy
\* transaction
BuildLegacy_Finish ==
    /\ Running("BuildLegacy", "gasLimit")
    /\ \E est \in (IF Top.gasLimit = 0
                   THEN EstimateGasOutcomes(acc.address, Top.to)
                   ELSE {Given(Top.gasLimit)}) :
        /\ rpcLog' = rpcLog \o est.log
        /\ IF est.err # NilErr
           THEN BuilderReturn("BuildLegacy", NoTx, est.err)
           ELSE BuilderReturn("BuildLegacy",
                    LegacyTx(Top.nonce, LegacyTo(Top.pkg, Top.toPtr),
                             Top.value, est.val, Top.gasPrice, Top.data,
                             acc.chainID),
                    NilErr)
    /\ UNCHANGED <<aside, call, sent, outcomes, sleeps, now, tickerC,
                   lastAnswer>>

BuildDynamic_Start == BuilderStart("BuildDynamic", "tipCap")

BuildDynamic_TipCap ==
    /\ Running("BuildDynamic", "tipCap")
    /\ \E sug \in (IF Top.maxPriorityFeePerGas = Nil
                   THEN SuggestGasTipCapOutcomes
                   ELSE {Given(Top.maxPriorityFeePerGas)}) :
        /\ rpcLog' = rpcLog \o sug.log
        /\ IF sug.err # NilErr
           THEN BuilderReturn("BuildDynamic", NoTx, sug.err)
           ELSE /\ stack' = SetTop([Top EXCEPT !.pc = "feeCap",
                                               !.maxPriorityFeePerGas = sug.val])
                /\ UNCHANGED <<ret, calls>>
    /\ UNCHANGED <<aside, call, sent, outcomes, sleeps, now, tickerC,
                   lastAnswer>>

\* maxFeePerGas derived from the suggested legacy price base
DerivedFeeCap(base, maxPriorityFeePerGas) ==
    IF 2 * base < maxPriorityFeePerGas THEN maxPriorityFeePerGas ELSE 2 * base

BuildDynamic_FeeCap ==
    /\ Running("BuildDynamic", "feeCap")
    /\ \E sug \in (IF Top.maxFeePerGas = Nil
                   THEN SuggestGasPriceOutcomes
                   ELSE {Given(Top.maxFeePerGas)}) :
        /\ rpcLog' = rpcLog \o sug.log
        /\ IF sug.err # NilErr
           THEN BuilderReturn("BuildDynamic", NoTx, sug.err)
           ELSE /\ stack' = SetTop([Top EXCEPT !.pc = "gasLimit",
                        !.maxFeePerGas =
                            IF Top.maxFeePerGas = Nil
                            THEN DerivedFeeCap(sug.val,
                                               Top.maxPriorityFeePerGas)
                            ELSE Top.maxFeePerGas])
                /\ UNCHANGED <<ret, calls>>
    /\ UNCHANGED <<aside, call, sent, outcomes, sleeps, now, tickerC,
                   lastAnswer>>

\* the gas limit, then types.NewTx(&types.DynamicFeeTx{...}) and SignTx with
\* the London signer of acc.ChainID, the chain id the transaction carries
BuildDynamic_Finish ==
    /\ Running("BuildDynamic", "gasLimit")
    /\ \E est \in (IF Top.gasLimit = 0
                   THEN EstimateGasOutcomes(acc.address, Top.to)
                   ELSE {Given(Top.gasLimit)}) :
        /\ rpcLog' = rpcLog \o est.log
        /\ IF est.err # NilErr
           THEN BuilderReturn("BuildDynamic", NoTx, est.err)
           ELSE BuilderReturn("BuildDynamic",
                    DynamicFeeTx(Top.nonce, Top.toPtr, Top.value, est.val,
                                 Top.maxPriorityFeePerGas, Top.maxFeePerGas,
                                 Top.data, acc.chainID),
                    NilErr)
    /\ UNCHANGED <<aside, call, sent, outcomes, sleeps, now, tickerC,
                   lastAnswer>>

\* ======================================================== BuildTxWithGas

\* faulty variant: BuildLegacy is called whatever BuildDynamic returned
FallbackToLegacy_Always(err) == TRUE

\* if err != nil after BuildDynamic: fall back to BuildLegacy
FallbackToLegacy(err) == err # NilErr

\* a builder is called: its frame is pushed and the call recorded
InvokeBuilder(callerFrame, frame) ==
    /\ stack' = CallFrom(callerFrame, frame)
    /\ calls' = Append(calls, CallEntry(frame.fn))
    /\ ret' = NoRet

\* nil value and nil data are replaced, then ProcessGasParams is called
BuildTxWithGas_Start ==
    /\ Running("BuildTxWithGas", "start")
    /\ LET value == IF Top.value = Nil THEN 0 ELSE Top.value
       IN  stack' = CallFrom([Top EXCEPT !.pc = "afterParams",
                                         !.value = value],
                      ProcessGasParamsFrame(Top.gasLimit, Top.gasPrice,
                                            Top.to, value, Top.data))
    /\ ret' = NoRet
    /\ UNCHANGED <<aside, call, calls, rpcLog, sent, outcomes, sleeps, now,
                   tickerC, lastAnswer>>

\* BuildDynamic with the resolved gas limit and no fee arguments
BuildTxWithGas_AfterParams ==
    /\ Running("BuildTxWithGas", "afterParams")
    /\ ret.fn = "ProcessGasParams"
    /\ IF ret.err # NilErr
       THEN /\ stack' = Pop
            /\ ret' = [fn |-> "BuildTxWithGas", tx |-> NoTx, err |-> ret.err]
            /\ UNCHANGED calls
       ELSE InvokeBuilder([Top EXCEPT !.pc = "afterDynamic",
                                      !.gasParams = ret.params],
                BuildDynamicFrame(Top.to, Top.value, Top.data,
                                  ret.params.GasLimit, Nil, Nil, Top.nonce))
    /\ UNCHANGED <<aside, call, rpcLog, sent, outcomes, sleeps, now, tickerC,
                   lastAnswer>>

BuildTxWithGas_AfterDynamic ==
    /\ Running("BuildTxWithGas", "afterDynamic")
    /\ ret.fn = "BuildDynamic"
    /\ IF FallbackToLegacy(ret.err)
       THEN InvokeBuilder([Top EXCEPT !.pc = "afterLegacy"],
                BuildLegacyFrame(Top.to, Top.value, Top.data,
                                 Top.gasParams.GasLimit,
                                 Top.gasParams.GasPrice, Top.nonce))
       ELSE /\ stack' = Pop
            /\ ret' = [fn |-> "BuildTxWithGas", tx |-> ret.tx, err |-> ret.err]
            /\ UNCHANGED calls
    /\ UNCHANGED <<aside, call, rpcLog, sent, outcomes, sleeps, now, tickerC,
                   lastAnswer>>

BuildTxWithGas_AfterLegacy ==
    /\ Running("BuildTxWithGas", "afterLegacy")
    /\ ret.fn = "BuildLegacy"
    /\ stack' = Pop
    /\ ret' = [fn |-> "BuildTxWithGas", tx |-> ret.tx, err |-> ret.err]
    /\ UNCHANGED <<aside, call, calls, rpcLog, sent, outcomes, sleeps, now,
                   tickerC, lastAnswer>>

\* ==================================================== SendContractMethod

\* if err != nil after BuildDynamic in SendContractMethod
MethodFallbackToLegacy(err) == err # NilErr

\* Pack(abiJSON, method, args...) is the external ABI coder: packs says
\* whether it accepts the arguments, data is the calldata it then produces
SendContractMethod_Start ==
    /\ Running("SendContractMethod", "start")
    /\ IF ~IsValidAddress(Top.contract)
       THEN /\ stack' = Pop
            /\ ret' = [fn |-> "SendContractMethod", tx |-> NoTx,
                       err |-> ErrInvalidAddr("invalid contract address",
                                              Top.contract)]
            /\ UNCHANGED calls
       ELSE IF ~Top.packs
       THEN /\ stack' = Pop
            /\ ret' = [fn |-> "SendContractMethod", tx |-> NoTx,
                       err |-> Err("abi pack failed")]
            /\ UNCHANGED calls
       ELSE InvokeBuilder([Top EXCEPT !.pc = "afterDynamic"],
                BuildDynamicFrame(Top.contract, Top.value, Top.data,
                                  0, Nil, Nil, Nil))
    /\ UNCHANGED <<aside, call, rpcLog, sent, outcomes, sleeps, now, tickerC,
                   lastAnswer>>

SendContractMethod_AfterDynamic ==
    /\ Running("SendContractMethod", "afterDynamic")
    /\ ret.fn = "BuildDynamic"
    /\ IF MethodFallbackToLegacy(ret.err)
       THEN InvokeBuilder([Top EXCEPT !.pc = "afterLegacy"],
                BuildLegacyFrame(Top.contract, Top.value, Top.data,
                                 0, Nil, Nil))
       ELSE /\ stack' = CallFrom([Top EXCEPT !.pc = "afterSend",
                                             !.signed = ret.tx],
                                 SendTxFrame(ret.tx))
            /\ ret' = NoRet
            /\ UNCHANGED calls
    /\ UNCHANGED <<aside, call, rpcLog, sent, outcomes, sleeps, now, tickerC,
                   lastAnswer>>

SendContractMethod_AfterLegacy ==
    /\ Running("SendContractMethod", "afterLegacy")
    /\ ret.fn = "BuildLegacy"
    /\ IF ret.err # NilErr
       THEN /\ stack' = Pop
            /\ ret' = [fn |-> "SendContractMethod", tx |-> NoTx,
                       err |-> ret.err]
       ELSE /\ stack' = CallFrom([Top EXCEPT !.pc = "afterSend",
                                             !.signed = ret.tx],
                                 SendTxFrame(ret.tx))
            /\ ret' = NoRet
    /\ UNCHANGED <<aside, call, calls, rpcLog, sent, outcomes, sleeps, now,
                   tickerC, lastAnswer>>

SendContractMethod_AfterSend ==
    /\ Running("SendContractMethod", "afterSend")
    /\ ret.fn = "SendTx"
    /\ stack' = Pop
    /\ ret' = IF ret.err # NilErr
              THEN [fn |-> "SendContractMethod", tx |-> NoTx, err |-> ret.err]
              ELSE [fn |-> "SendContractMethod", tx |-> Top.signed,
                    err |-> NilErr]
    /\ UNCHANGED <<aside, call, calls, rpcLog, sent, outcomes, sleeps, now,
                   tickerC, lastAnswer>>

\* ==================================================== SendTxWithSmartGas

UpperHex(c) ==
    CASE c = "a" -> "A" [] c = "b" -> "B" [] c = "c" -> "C"
      [] c = "d" -> "D" [] c = "e" -> "E" [] c = "f" -> "F"
      [] OTHER -> c

\* common.Address.Hex(): "0x" and the 40 hex digits in EIP-55 checksum case.
\* Which letters are written upper-case is decided by a hash of the digits;
\* here the letters at odd positions are.
Hex(a) ==
    <<"0", "x">> \o [k \in 1..40 |-> IF k % 2 = 1 THEN UpperHex(a[k]) ELSE a[k]]

\* higherGasPrice := gasPrice * 120 / 100 (big.Int, truncating)
HigherGasPrice(gasPrice) == (gasPrice * 120) \div 100

\* faulty variant: the rebuilt transaction takes a fresh pending nonce
RebuildNonce_Fresh(t) == Nil

\* nonce := tx.Nonce(); &nonce is the nonce override of the rebuild
RebuildNonce(t) == t.nonce

\* the gasPrice argument of the rebuild: higherGasPrice for a legacy
\* original, nil for a dynamic-fee one
RebuildGasPrice(t, higherGasPrice) ==
    IF t.type = "legacy" THEN higherGasPrice ELSE Nil

BuildTxWithGasFrame(to, data, value, gasLimit, gasPrice, nonce) ==
    [fn |-> "BuildTxWithGas", pc |-> "start", to |-> to, data |-> data,
     value |-> value, gasLimit |-> gasLimit, gasPrice |-> gasPrice,
     nonce |-> nonce, gasParams |-> NoParams]

\* the running goroutine panics: the whole call stack unwinds
Panic(what) ==
    /\ stack' = <<>>
    /\ ret' = [fn |-> "panic", hash |-> ZeroHash, err |-> Err(what)]

SmartGasReturn(h, e) ==
    /\ stack' = Pop
    /\ ret' = [fn |-> "SendTxWithSmartGas", hash |-> h, err |-> e]

\* hash, err := a.SendTx(tx)
SendTxWithSmartGas_Start ==
    /\ Running("SendTxWithSmartGas", "start")
    /\ stack' = CallFrom([Top EXCEPT !.pc = "afterFirst"], SendTxFrame(Top.tx))
    /\ ret' = NoRet
    /\ UNCHANGED <<aside, call, calls, rpcLog, sent, outcomes, sleeps, now,
                   tickerC, lastAnswer>>

\* after the first SendTx: return on success; otherwise SuggestGasPrice,
\* then BuildTxWithGas with the fields read from tx.  tx.To() is nil for a
\* contract creation, and tx.To().Hex() then dereferences nil.
SendTxWithSmartGas_AfterFirst ==
    /\ Running("SendTxWithSmartGas", "afterFirst")
    /\ ret.fn = "SendTx"
    /\ IF ret.err = NilErr
       THEN /\ SmartGasReturn(ret.hash, NilErr)
            /\ UNCHANGED rpcLog
       ELSE \E sug \in SuggestGasPriceOutcomes :
            /\ rpcLog' = rpcLog \o sug.log
            /\ IF sug.err # NilErr
               THEN SmartGasReturn(ZeroHash,
                        Wrap("suggest gas price failed", sug.err))
               ELSE IF Top.tx.to = NoAddress
               THEN Panic("nil pointer dereference")
               ELSE /\ stack' = CallFrom([Top EXCEPT !.pc = "afterBuild"],
                            BuildTxWithGasFrame(Hex(Top.tx.to), Top.tx.data,
                                Top.tx.value, Top.tx.gas,
                                RebuildGasPrice(Top.tx,
                                                HigherGasPrice(sug.val)),
                                RebuildNonce(Top.tx)))
                    /\ ret' = NoRet
    /\ UNCHANGED <<aside, call, calls, sent, outcomes, sleeps, now, tickerC,
                   lastAnswer>>

\* after BuildTxWithGas: return its error wrapped, or a.SendTx(newTx)
SendTxWithSmartGas_AfterBuild ==
    /\ Running("SendTxWithSmartGas", "afterBuild")
    /\ ret.fn = "BuildTxWithGas"
    /\ IF ret.err # NilErr
       THEN SmartGasReturn(ZeroHash, Wrap("rebuild failed", ret.err))
       ELSE /\ stack' = CallFrom([Top EXCEPT !.pc = "afterSecond",
                                             !.newTx = ret.tx],
                                 SendTxFrame(ret.tx))
            /\ ret' = NoRet
    /\ UNCHANGED <<aside, call, calls, rpcLog, sent, outcomes, sleeps, now,
                   tickerC, lastAnswer>>

\* return a.SendTx(newTx)
SendTxWithSmartGas_AfterSecond ==
    /\ Running("SendTxWithSmartGas", "afterSecond")
    /\ ret.fn = "SendTx"
    /\ SmartGasReturn(ret.hash, ret.err)
    /\ UNCHANGED <<aside, call, calls, rpcLog, sent, outcomes, sleeps, now,
                   tickerC, lastAnswer>>

\* ====================================================== GetGasByStrategy

\* SuggestGasPrice as answered to the strategy functions.  The quotes reach
\* MaxQuote, and each is logged with its value.
QuoteOutcomes ==
    {RpcOk("SuggestGasPrice", p) : p \in 0..MaxQuote}
        \cup {RpcFail("SuggestGasPrice")}

QuoteLog(q) ==
    <<[name |-> "SuggestGasPrice", ok |-> q.err = NilErr, remote |-> TRUE,
       val |-> q.val]>>

\* faulty variant: the division rounds up
Scale_RoundUp(price, pct) == (price * pct + 99) \div 100

\* new(big.Int).Mul(price, big.NewInt(pct)) followed by Div(.., 100)
Scale(price, pct) == (price * pct) \div 100

\* a strategy function returns (price, err) to its caller
PriceReturn(fn, price, e) ==
    /\ stack' = Pop
    /\ ret' = [fn |-> fn, price |-> price, err |-> e]

\* GetDynamicGasPrice: the suggested price raised by 10%
GetDynamicGasPrice_Run ==
    /\ Running("GetDynamicGasPrice", "start")
    /\ \E q \in QuoteOutcomes :
        /\ rpcLog' = rpcLog \o QuoteLog(q)
        /\ IF q.err # NilErr
           THEN PriceReturn("GetDynamicGasPrice", Nil, q.err)
           ELSE PriceReturn("GetDynamicGasPrice", Scale(q.val, 110), NilErr)
    /\ UNCHANGED <<aside, call, calls, sent, outcomes, sleeps, now, tickerC,
                   lastAnswer>>

\* GetOptimalGasPrice: the base price, then the call of GetDynamicGasPrice
GetOptimalGasPrice_Base ==
    /\ Running("GetOptimalGasPrice", "start")
    /\ \E q \in QuoteOutcomes :
        /\ rpcLog' = rpcLog \o QuoteLog(q)
        /\ IF q.err # NilErr
           THEN PriceReturn("GetOptimalGasPrice", Nil, q.err)
           ELSE /\ stack' = CallFrom([Top EXCEPT !.pc = "afterDynamic",
                                                 !.basePrice = q.val],
                            [fn |-> "GetDynamicGasPrice", pc |-> "start"])
                /\ ret' = NoRet
    /\ UNCHANGED <<aside, call, calls, sent, outcomes, sleeps, now, tickerC,
                   lastAnswer>>

\* the base price when the dynamic price failed, else the higher of the two
GetOptimalGasPrice_AfterDynamic ==
    /\ Running("GetOptimalGasPrice", "afterDynamic")
    /\ ret.fn = "GetDynamicGasPrice"
    /\ IF ret.err # NilErr
       THEN PriceReturn("GetOptimalGasPrice", Top.basePrice, NilErr)
       ELSE IF ret.price > Top.basePrice
       THEN PriceReturn("GetOptimalGasPrice", ret.price, NilErr)
       ELSE PriceReturn("GetOptimalGasPrice", Top.basePrice, NilErr)
    /\ UNCHANGED <<aside, call, calls, rpcLog, sent, outcomes, sleeps, now,
                   tickerC, lastAnswer>>

\* GetGasByStrategy: the base price and the switch on the strategy
GetGasByStrategy_Start ==
    /\ Running("GetGasByStrategy", "start")
    /\ \E q \in QuoteOutcomes :
        /\ rpcLog' = rpcLog \o QuoteLog(q)
        /\ IF q.err # NilErr
           THEN PriceReturn("GetGasByStrategy", Nil, q.err)
           ELSE IF Top.strategy = GasStrategyAuto
           THEN /\ stack' = CallFrom([Top EXCEPT !.pc = "afterOptimal"],
                            [fn |-> "GetOptimalGasPrice", pc |-> "start",
                             basePrice |-> Nil])
                /\ ret' = NoRet
           ELSE IF Top.strategy = GasStrategyFast
           THEN PriceReturn("GetGasByStrategy", Scale(q.val, 150), NilErr)
           ELSE IF Top.strategy = GasStrategyStandard
           THEN PriceReturn("GetGasByStrategy", q.val, NilErr)
           ELSE IF Top.strategy = GasStrategySlow
           THEN PriceReturn("GetGasByStrategy", Scale(q.val, 80), NilErr)
           ELSE PriceReturn("GetGasByStrategy", q.val, NilErr)
    /\ UNCHANGED <<aside, call, calls, sent, outcomes, sleeps, now, tickerC,
                   lastAnswer>>

\* return a.GetOptimalGasPrice()
GetGasByStrategy_AfterOptimal ==
    /\ Running("GetGasByStrategy", "afterOptimal")
    /\ ret.fn = "GetOptimalGasPrice"
    /\ PriceReturn("GetGasByStrategy", ret.price, ret.err)
    /\ UNCHANGED <<aside, call, calls, rpcLog, sent, outcomes, sleeps, now,
                   tickerC, lastAnswer>>

\* ========================================= goroutines sharing the account

\* Several goroutines hold the same *IAccount and each builds, or builds and
\* sends, one transaction without a nonce override.  Only the steps that
\* concern the nonce are kept: the builder's nonce read, the signing, and
\* SendTransaction; the node advances the pending nonce when it accepts a
\* transaction with that nonce.
Goroutines == 1..MaxGoroutines

IdleWorker ==
    [pc |-> "idle", kind |-> "legacy", mode |-> "build", nonce |-> 0,
     tx |-> NoTx, err |-> NilErr]

\* faulty variant: the nonce is read under a per-account lock that is held
\* until the transaction has been built or handed to the node
NonceReadAllowed_Locked(g) ==
    \A h \in Goroutines \ {g} : workers[h].pc \notin {"sign", "submit"}

\* what goroutine g waits for before acc.Nonce(acc.Address()): nothing, the
\* builders take no lock and IAccount holds none
NonceReadAllowed(g) == TRUE

\* PendingNonceAt as the node answers it now
PendingNonceAnswers == {RpcOk("Nonce", pendingNonce), RpcFail("Nonce")}

\* the transaction goroutine g builds: its own amount, the nonce it read
WorkerTx(g, kind, nonce) ==
    IF kind = "legacy"
    THEN LegacyTx(nonce, HexToAddress(AddrValid), g, 1, 1, <<>>, acc.chainID)
    ELSE DynamicFeeTx(nonce, HexToAddress(AddrValid), g, 1, 1, 2, <<>>,
                      acc.chainID)

\* a goroutine calls a builder (mode "build") or a sender (mode "send")
Worker_Start(g) ==
    /\ workers[g].pc = "idle"
    /\ \E kind \in {"legacy", "dynamic"}, mode \in {"build", "send"} :
        workers' = [workers EXCEPT ![g] =
                        [IdleWorker EXCEPT !.pc = "nonce", !.kind = kind,
                                           !.mode = mode]]
    /\ UNCHANGED <<acc, stack, ret, call, calls, rpcLog, sent, outcomes,
                   sleeps, now, tickerC, lastAnswer, pendingNonce,
                   constructed>>

\* nonce, err = acc.Nonce(acc.Address())
Worker_ReadNonce(g) ==
    /\ workers[g].pc = "nonce"
    /\ NonceReadAllowed(g)
    /\ \E ans \in PendingNonceAnswers :
        workers' = [workers EXCEPT ![g] =
                        IF ans.err # NilErr
                        THEN [@ EXCEPT !.pc = "done", !.err = ans.err]
                        ELSE [@ EXCEPT !.pc = "sign", !.nonce = ans.val]]
    /\ UNCHANGED <<acc, stack, ret, call, calls, rpcLog, sent, outcomes,
                   sleeps, now, tickerC, lastAnswer, pendingNonce,
                   constructed>>

\* the rest of the builder: the transaction is built and signed
Worker_Sign(g) ==
    /\ workers[g].pc = "sign"
    /\ LET w == workers[g]
       IN  workers' = [workers EXCEPT ![g] =
                          [w EXCEPT !.pc = IF w.mode = "send" THEN "submit"
                                           ELSE "done",
                                    !.tx = WorkerTx(g, w.kind, w.nonce)]]
    /\ UNCHANGED <<acc, stack, ret, call, calls, rpcLog, sent, outcomes,
                   sleeps, now, tickerC, lastAnswer, pendingNonce,
                   constructed>>

\* SendTransaction: the node takes the transaction that carries its pending
\* nonce and rejects one whose nonce is already used
Worker_Submit(g) ==
    /\ workers[g].pc = "submit"
    /\ LET accepted == workers[g].tx.nonce = pendingNonce
       IN  /\ pendingNonce' = IF accepted THEN pendingNonce + 1
                              ELSE pendingNonce
           /\ workers' = [workers EXCEPT ![g] =
                            [@ EXCEPT !.pc = "done",
                                      !.err = IF accepted THEN NilErr
                                              ELSE ErrSubmit]]
    /\ UNCHANGED <<acc, stack, ret, call, calls, rpcLog, sent, outcomes,
                   sleeps, now, tickerC, lastAnswer, constructed>>

\* ========================================================== construction

Constructors == {"NewWithMnemonicIndex", "NewWithPrivateKey"}

NoAccount == [type |-> "nil"]   \* a nil *IAccount

\* A mnemonic is the sequence of its words, each word written as its number
\* in the word list.  bip39 accepts a phrase of the right number of words,
\* all from the list, whose last word is the checksum of the others.
WordCount == 4
MnemonicLen == 3

RECURSIVE SumTo(_, _)
SumTo(m, k) == IF k = 0 THEN 0 ELSE m[k] + SumTo(m, k - 1)

MnemonicChecksum(m) == SumTo(m, Len(m) - 1) % WordCount

\* faulty variant: the checksum word is not verified
IsMnemonicValid_NoChecksum(m) ==
    /\ Len(m) = MnemonicLen
    /\ \A k \in 1..Len(m) : m[k] \in 0..(WordCount - 1)

\* bip39.IsMnemonicValid
IsMnemonicValid(m) ==
    /\ Len(m) = MnemonicLen
    /\ \A k \in 1..Len(m) : m[k] \in 0..(WordCount - 1)
    /\ m[Len(m)] = MnemonicChecksum(m)

MnemonicGood == <<1, 2, 3>>
MnemonicOther == <<2, 2, 0>>
MnemonicBadChecksum == <<1, 2, 0>>
MnemonicTooShort == <<1, 2>>

\* Keys are identified by what they were derived from: seed is the mnemonic
\* or the 32 key bytes as lower-case hex digits, path the BIP-32 path.  The
\* derivation (seed, master key, child keys) is a chain of hashes and has no
\* other input.
DeriveKey(mnemonic, index) ==
    [src |-> "bip44", seed |-> mnemonic, path |-> <<44, 60, 0, 0, index>>]

\* crypto.PubkeyToAddress(priv.PublicKey)
PubkeyToAddress(key) == <<"address of", key>>

\* private keys as hex strings: 32 bytes are 64 digits
HexKeyLen == 64
KeyGood == Rep("1", HexKeyLen)
KeyGood0x == <<"0", "x">> \o KeyGood
KeyUpper == Rep("A", HexKeyLen)
KeyLower == Rep("a", HexKeyLen)
KeyShort == Rep("1", HexKeyLen - 1)
KeyNonHex == Rep("g", HexKeyLen)
KeyZero == Rep("0", HexKeyLen)
KeyOnlyPrefix == <<"0", "x">>

\* if len(hexKey) > 2 && hexKey[:2] == "0x" { hexKey = hexKey[2:] }
StripPrefix(h) ==
    IF Len(h) > 2 /\ h[1] = "0" /\ h[2] = "x" THEN SubSeq(h, 3, Len(h))
    ELSE h

\* crypto.HexToECDSA accepts 64 hex digits that are a scalar in [1, N-1];
\* of the scalars out of range only zero and 0xff..ff are told apart here
HexDecodes(h) ==
    /\ Len(h) = HexKeyLen
    /\ \A k \in 1..Len(h) : h[k] \in HexDigits
    /\ [k \in 1..Len(h) |-> LowerHex(h[k])] \notin {KeyZero, Rep("f", HexKeyLen)}

HexToECDSA(h) ==
    [src |-> "hex", seed |-> [k \in 1..Len(h) |-> LowerHex(h[k])],
     path |-> <<>>]

\* faulty variant: the key is derived again with the chain id in the path
AccountOf_KeyPerChain(key, address, chainID, rpcURL) ==
    [key |-> [key EXCEPT !.path = Append(@, chainID)],
     address |-> PubkeyToAddress([key EXCEPT !.path = Append(@, chainID)]),
     ChainID |-> chainID, RPC |-> rpcURL]

\* &IAccount{key: priv, address: addr, ChainID: chainId, RPC: rpcURL, ...}
AccountOf(key, address, chainID, rpcURL) ==
    [key |-> key, address |-> address, ChainID |-> chainID, RPC |-> rpcURL]

\* faulty variant: chain id 1 is assumed when discovery fails
ResolveChainID_AssumeMainnet(ans) == IF ans.err # NilErr THEN 1 ELSE ans.val

\* chainId, err := eInnerClient.ChainID(ctx); big.NewInt(0) on error
ResolveChainID(ans) == IF ans.err # NilErr THEN 0 ELSE ans.val

\* eInnerClient.ChainID(ctx) as the endpoint answers it
ChainIDAnswers ==
    {RpcOk("ChainID", c) : c \in 1..MaxChainID} \cup {RpcFail("ChainID")}

ConstructorReturn(fn, a, e) ==
    /\ stack' = Pop
    /\ ret' = [fn |-> fn, account |-> a, err |-> e]

\* NewWithMnemonicIndex up to the address: the checks and the derivation.
\* NewMasterKey and ToECDSA fail only for seeds outside the curve order,
\* which no mnemonic here produces.
NewWithMnemonicIndex_Derive ==
    /\ Running("NewWithMnemonicIndex", "start")
    /\ IF Top.mnemonic = EmptyStr
       THEN ConstructorReturn("NewWithMnemonicIndex", NoAccount,
                              Err("mnemonic is empty"))
       ELSE IF ~IsMnemonicValid(Top.mnemonic)
       THEN ConstructorReturn("NewWithMnemonicIndex", NoAccount,
                              Err("invalid mnemonic"))
       ELSE LET index == IF Top.index < 0 THEN 0 ELSE Top.index
                priv == DeriveKey(Top.mnemonic, index)
            IN  /\ stack' = SetTop([Top EXCEPT !.pc = "dial", !.key = priv,
                                    !.address = PubkeyToAddress(priv)])
                /\ UNCHANGED ret
    /\ UNCHANGED <<aside, call, calls, rpcLog, sent, outcomes, sleeps, now,
                   tickerC, lastAnswer>>

\* NewWithPrivateKey up to the address
NewWithPrivateKey_Decode ==
    /\ Running("NewWithPrivateKey", "start")
    /\ IF Top.hexKey = EmptyStr
       THEN ConstructorReturn("NewWithPrivateKey", NoAccount,
                              Err("private key is empty"))
       ELSE IF ~HexDecodes(StripPrefix(Top.hexKey))
       THEN ConstructorReturn("NewWithPrivateKey", NoAccount,
                              Wrap("bad private key", Err("HexToECDSA")))
       ELSE LET priv == HexToECDSA(StripPrefix(Top.hexKey))
            IN  /\ stack' = SetTop([Top EXCEPT !.pc = "dial", !.key = priv,
                                    !.address = PubkeyToAddress(priv)])
                /\ UNCHANGED ret
    /\ UNCHANGED <<aside, call, calls, rpcLog, sent, outcomes, sleeps, now,
                   tickerC, lastAnswer>>

\* ethclient.DialContext(ctx, rpcURL), the same statements in both
Constructor_Dial ==
    /\ Len(stack) > 0
    /\ Top.fn \in Constructors
    /\ Top.pc = "dial"
    /\ \E ok \in BOOLEAN :
        /\ rpcLog' = Append(rpcLog, [name |-> "DialContext", ok |-> ok,
                                     remote |-> TRUE, val |-> 0])
        /\ IF ok
           THEN /\ stack' = SetTop([Top EXCEPT !.pc = "chainID"])
                /\ UNCHANGED ret
           ELSE ConstructorReturn(Top.fn, NoAccount,
                                  Wrap("dial failed", ErrTransport))
    /\ UNCHANGED <<aside, call, calls, sent, outcomes, sleeps, now, tickerC,
                   lastAnswer>>

\* the chain id and the returned account, the same statements in both
Constructor_ChainID ==
    /\ Len(stack) > 0
    /\ Top.fn \in Constructors
    /\ Top.pc = "chainID"
    /\ \E ans \in ChainIDAnswers :
        LET a == AccountOf(Top.key, Top.address, ResolveChainID(ans),
                           Top.rpcURL)
        IN  /\ rpcLog' = Append(rpcLog, [name |-> "ChainID",
                                         ok |-> ans.err = NilErr,
                                         remote |-> TRUE, val |-> ans.val])
            /\ ConstructorReturn(Top.fn, a, NilErr)
            /\ constructed' = constructed \cup {[call |-> call, account |-> a]}
    /\ UNCHANGED <<acc, pendingNonce, workers, call, calls, sent, outcomes,
                   sleeps, now, tickerC, lastAnswer>>

\* ========================================================= pure functions

\* a pure function is called and returns: no frame outlives the step
PureCall(c, r) ==
    /\ Idle
    /\ call' = c
    /\ ret' = r
    /\ UNCHANGED <<aside, stack, calls, rpcLog, sent, outcomes, sleeps, now,
                   tickerC, lastAnswer>>

\* faulty variant: the pattern without the end anchor
MatchAddress_NoEndAnchor(s) ==
    /\ Len(s) >= 42
    /\ s[1] = "0"
    /\ s[2] = "x"
    /\ \A k \in 3..42 : s[k] \in HexDigits

\* case string: return re.MatchString(v), the pattern being the one of
\* IsValidAddress above
MatchAddress(s) == IsValidAddress(s)

\* strings given to IsValidAddress: a prefix, then AddrDigits - 1 to
\* AddrDigits + 1 copies of a hex digit, one of which may be replaced
Poke(s, k, d) == IF k = 0 THEN s ELSE [s EXCEPT ![k] = d]
AddressStrings ==
    {EmptyStr} \cup
    {pre \o Poke(Rep(c, n), k, d) :
        pre \in {<<"0", "x">>, <<"0", "X">>, <<"x">>, <<>>},
        c \in {"a", "F", "7"},
        n \in (AddrDigits - 1)..(AddrDigits + 1),
        k \in {0, 1, AddrDigits - 1},
        d \in {"g", "x", " "}}

CallIsValidAddress ==
    \E x \in AddressStrings :
        PureCall([fn |-> "IsValidAddress", x |-> x],
                 [fn |-> "IsValidAddress", ok |-> MatchAddress(x)])

\* --------------------------------------------------- WaitForTransaction

\* if confirmations <= 0 { confirmations = 1 }
RequiredConfirmations(c) == IF c <= 0 THEN 1 ELSE c

ErrConfirmTimeout(h) ==
    [msg |-> <<"wait for confirmation timed out">>, hash |-> h,
     addr |-> EmptyStr]

\* the 5 minute context of WaitForTransaction is done
ConfirmCtxDone == now >= ConfirmTimeout

NoReceipt == [block |-> Nil]   \* a nil *types.Receipt

WaitForTransactionFrame(h, c) ==
    [fn |-> "WaitForTransaction", pc |-> "select", txHash |-> h,
     confirmations |-> RequiredConfirmations(c), receipt |-> NoReceipt]

ReturnWait(receipt, e) ==
    /\ stack' = Pop
    /\ ret' = [fn |-> "WaitForTransaction", receipt |-> receipt, err |-> e]

\* select { case <-ctx.Done(): return nil, timeout; case <-ticker.C: ... }
\* when both are ready Go takes either
WaitForTransaction_Select ==
    /\ Running("WaitForTransaction", "select")
    /\ \/ /\ ConfirmCtxDone
          /\ ReturnWait(NoReceipt, ErrConfirmTimeout(Top.txHash))
          /\ UNCHANGED tickerC
       \/ /\ tickerC
          /\ tickerC' = FALSE
          /\ stack' = SetTop([Top EXCEPT !.pc = "receipt"])
          /\ UNCHANGED ret
    /\ UNCHANGED <<aside, call, calls, rpcLog, sent, outcomes, sleeps, now,
                   lastAnswer>>

\* a.GetTransactionReceipt(txHash), on context.Background(): on an error
\* the loop continues, otherwise the block number is asked for
WaitForTransaction_Receipt ==
    /\ Running("WaitForTransaction", "receipt")
    /\ \/ /\ lastAnswer' = [receipt |-> Nil, latest |-> Nil]
          /\ stack' = SetTop([Top EXCEPT !.pc = "select"])
       \/ \E b \in 0..MaxBlock :
            /\ lastAnswer' = [receipt |-> b, latest |-> Nil]
            /\ stack' = SetTop([Top EXCEPT !.pc = "block",
                                           !.receipt = [block |-> b]])
    /\ UNCHANGED <<aside, ret, call, calls, rpcLog, sent, outcomes, sleeps,
                   now, tickerC>>

\* a.GetLatestBlockNumber(), then the confirmation count is compared
WaitForTransaction_Block ==
    /\ Running("WaitForTransaction", "block")
    /\ \/ /\ lastAnswer' = [lastAnswer EXCEPT !.latest = Nil]
          /\ ReturnWait(NoReceipt, Wrap("latest block number failed",
                                        Err("BlockNumber")))
       \/ \E n \in 0..MaxBlock :
            /\ lastAnswer' = [lastAnswer EXCEPT !.latest = n]
            /\ IF n - Top.receipt.block >= Top.confirmations
               THEN ReturnWait(Top.receipt, NilErr)
               ELSE /\ stack' = SetTop([Top EXCEPT !.pc = "select"])
                    /\ UNCHANGED ret
    /\ UNCHANGED <<aside, call, calls, rpcLog, sent, outcomes, sleeps, now,
                   tickerC>>

\* a second passes while WaitForTransaction runs; the ticker delivers a
\* tick every ConfirmInterval seconds, dropped when one is still waiting
AdvanceClock_Confirm ==
    /\ Len(stack) > 0
    /\ Top.fn = "WaitForTransaction"
    /\ now < ConfirmMaxNow
    /\ now' = now + 1
    /\ tickerC' = IF (now + 1) % ConfirmInterval = 0 THEN TRUE ELSE tickerC
    /\ UNCHANGED <<aside, stack, ret, call, calls, rpcLog, sent, outcomes,
                   sleeps, lastAnswer>>

\* ------------------------------------------------------ ToDecimalsFloat

Digits == <<"0", "1", "2", "3", "4", "5", "6", "7", "8", "9">>
IsDigit(c) == \E k \in DOMAIN Digits : Digits[k] = c
DigitVal(c) == (CHOOSE k \in DOMAIN Digits : Digits[k] = c) - 1

\* strings.IndexByte(s, c): the 0-based index of the first c, -1 if none
IndexByte(s, c) ==
    IF \E k \in DOMAIN s : s[k] = c
    THEN (CHOOSE k \in DOMAIN s :
              s[k] = c /\ \A j \in 1..(k - 1) : s[j] # c) - 1
    ELSE -1

\* for len(intPart) > 1 && intPart[0] == '0' { intPart = intPart[1:] }
RECURSIVE StripLeadingZeros(_)
StripLeadingZeros(s) ==
    IF Len(s) > 1 /\ s[1] = "0" THEN StripLeadingZeros(Tail(s)) ELSE s

\* faulty variant: a long fraction is kept whole
CutFrac_Keep(frac, decimals) == frac

\* if int64(len(fracPart)) > decimals { fracPart = fracPart[:decimals] }
CutFrac(frac, decimals) ==
    IF Len(frac) > decimals THEN SubSeq(frac, 1, decimals) ELSE frac

\* faulty variant: a short fraction is not padded
PadFrac_None(frac, decimals) == frac

\* for int64(len(fracPart)) < decimals { fracPart += "0" }
PadFrac(frac, decimals) ==
    IF Len(frac) < decimals THEN frac \o Rep("0", decimals - Len(frac))
    ELSE frac

\* the value of a string of decimal digits
RECURSIVE DigitsValue(_)
DigitsValue(s) ==
    IF s = <<>> THEN 0
    ELSE 10 * DigitsValue(SubSeq(s, 1, Len(s) - 1)) + DigitVal(s[Len(s)])

\* big.Int.SetString(s, 10): an optional sign, then one or more digits
SetStringOk(s) ==
    LET body == IF s # <<>> /\ s[1] \in {"+", "-"} THEN Tail(s) ELSE s
    IN  body # <<>> /\ \A k \in DOMAIN body : IsDigit(body[k])
SetStringValue(s) ==
    IF s[1] = "-" THEN 0 - DigitsValue(Tail(s))
    ELSE IF s[1] = "+" THEN DigitsValue(Tail(s))
    ELSE DigitsValue(s)

\* ToDecimalsFloat(s, decimals) for decimals >= 0: [val, err]
ToDecimalsFloat(s, decimals) ==
    IF s = EmptyStr THEN [val |-> 0, err |-> NilErr]
    ELSE
    LET neg == s[1] = "-"
        s1 == IF s[1] \in {"-", "+"} THEN Tail(s) ELSE s
        i == IndexByte(s1, ".")
        intPart == StripLeadingZeros(IF i >= 0 THEN SubSeq(s1, 1, i) ELSE s1)
        frac0 == IF i >= 0 THEN SubSeq(s1, i + 2, Len(s1)) ELSE <<>>
        fracPart == PadFrac(CutFrac(frac0, decimals), decimals)
        merged0 == intPart \o fracPart
        merged == IF merged0 = <<>> THEN <<"0">> ELSE merged0
    IN  IF ~SetStringOk(merged)
        THEN [val |-> 0, err |-> Err("illegal decimal")]
        ELSE [val |-> IF neg THEN 0 - SetStringValue(merged)
                      ELSE SetStringValue(merged),
              err |-> NilErr]

\* decimal strings, each kept with the parts it is written from, and a few
\* strings that are no decimal number
DecimalInputs ==
    {[sign |-> sg, int |-> ip, dot |-> dt, frac |-> IF dt THEN fr ELSE <<>>,
      decimal |-> TRUE] :
        sg \in {<<>>, <<"-">>, <<"+">>},
        ip \in {<<"0">>, <<"1">>, <<"1", "2">>, <<"0", "0", "7">>},
        dt \in BOOLEAN,
        fr \in {<<>>, <<"5">>, <<"2", "3">>, <<"9", "9", "9">>,
                <<"2", "3", "4", "5", "6", "7">>}}
OtherInputs ==
    {[sign |-> <<>>, int |-> ip, dot |-> FALSE, frac |-> <<>>,
      decimal |-> FALSE] :
        ip \in {<<"a", "b">>, <<"1", ".", "2", ".", "3">>, <<"1", "e", "3">>}}
Written(p) ==
    p.sign \o p.int \o (IF p.dot THEN <<".">> \o p.frac ELSE <<>>)

CallToDecimalsFloat ==
    \E p \in DecimalInputs \cup OtherInputs, decimals \in 0..MaxDecimals :
        LET r == ToDecimalsFloat(Written(p), decimals)
        IN  PureCall([fn |-> "ToDecimalsFloat", s |-> Written(p),
                      decimals |-> decimals, parts |-> p],
                     [fn |-> "ToDecimalsFloat", val |-> r.val, err |-> r.err])

\* ----------------------------------------------------------- signatures

\* bytes are 0..255, byte strings are sequences of them
HexChars == <<"0", "1", "2", "3", "4", "5", "6", "7",
              "8", "9", "a", "b", "c", "d", "e", "f">>
ByteHex(b) == <<HexChars[(b \div 16) + 1], HexChars[(b % 16) + 1]>>

\* hexutil.Encode: "0x" and two lower-case digits for every byte
RECURSIVE Encode(_)
Encode(bs) ==
    IF bs = <<>> THEN <<"0", "x">>
    ELSE Encode(SubSeq(bs, 1, Len(bs) - 1)) \o ByteHex(bs[Len(bs)])

NibbleOk(c) == c \in HexDigits
NibbleVal(c) ==
    (CHOOSE k \in DOMAIN HexChars : HexChars[k] = LowerHex(c)) - 1
RECURSIVE DecodePairs(_)
DecodePairs(h) ==
    IF h = <<>> THEN <<>>
    ELSE <<16 * NibbleVal(h[1]) + NibbleVal(h[2])>>
             \o DecodePairs(SubSeq(h, 3, Len(h)))

\* hexutil.Decode: empty input, a missing 0x prefix, an odd number of digits
\* and a character that is no hex digit are errors
Decode(input) ==
    IF input = <<>> THEN [val |-> <<>>, err |-> Err("empty hex string")]
    ELSE IF ~(Len(input) >= 2 /\ input[1] = "0" /\ input[2] \in {"x", "X"})
    THEN [val |-> <<>>, err |-> Err("hex string without 0x prefix")]
    ELSE LET h == SubSeq(input, 3, Len(input))
         IN  IF Len(h) % 2 = 1
             THEN [val |-> <<>>, err |-> Err("hex string of odd length")]
             ELSE IF \E k \in DOMAIN h : ~NibbleOk(h[k])
             THEN [val |-> <<>>, err |-> Err("invalid hex string")]
             ELSE [val |-> DecodePairs(h), err |-> NilErr]

HashLen == 32
SigLen == 65

\* crypto.Keccak256 of the concatenated input: a 32-byte digest
RECURSIVE WeightedSum(_)
WeightedSum(bs) ==
    IF bs = <<>> THEN 0
    ELSE (WeightedSum(SubSeq(bs, 1, Len(bs) - 1)) + Len(bs) * bs[Len(bs)]) % 256
Keccak256(bs) == Rep((WeightedSum(bs) + 7 * Len(bs)) % 256, HashLen)

\* private keys of the accounts that sign, each named by one byte
SignerKeys == {"k1", "k2"}
KeyByte(key) == IF key = "k1" THEN 161 ELSE 178
Signers == {[key |-> k, address |-> PubkeyToAddress(k)] : k \in SignerKeys}

\* crypto.Sign(hash, key): r and s (64 bytes fixed by key and hash, the
\* nonce being deterministic) and the recovery id 0 or 1
RecoveryID(hash, key) == (KeyByte(key) + hash[1]) % 2
CryptoSign(hash, key) ==
    Rep(KeyByte(key), HashLen) \o hash \o <<RecoveryID(hash, key)>>

\* crypto.SigToPub(hash, sig): the recovery id must be below 4; the key that
\* made the signature over this hash is recovered, any other input recovers
\* a key nobody holds
SigToPub(hash, sig) ==
    IF Len(hash) # HashLen
    THEN [pub |-> "none", err |-> Err("invalid message length")]
    ELSE IF Len(sig) # SigLen
    THEN [pub |-> "none", err |-> Err("invalid signature length")]
    ELSE IF sig[SigLen] >= 4
    THEN [pub |-> "none", err |-> Err("invalid signature recovery id")]
    ELSE IF \E k \in SignerKeys : sig = CryptoSign(hash, k)
    THEN [pub |-> CHOOSE k \in SignerKeys : sig = CryptoSign(hash, k),
          err |-> NilErr]
    ELSE [pub |-> "stranger", err |-> NilErr]

\* faulty variant: the recovery id is left as crypto.Sign gave it
NormalizeV_Raw(v) == [v |-> v, ok |-> v \in {0, 1, 27, 28}]

\* switch v { case 0, 1: v += 27; case 27, 28: ; default: error }
NormalizeV(v) ==
    IF v \in {0, 1} THEN [v |-> v + 27, ok |-> TRUE]
    ELSE IF v \in {27, 28} THEN [v |-> v, ok |-> TRUE]
    ELSE [v |-> v, ok |-> FALSE]

\* (a *IAccount) SignHash(hash): [sig, err]
SignHash(a, hash) ==
    IF Len(hash) # HashLen
    THEN [sig |-> EmptyStr, err |-> Err("hash must be 32 bytes")]
    ELSE LET sig == CryptoSign(hash, a.key)
             n == NormalizeV(sig[SigLen])
         IN  IF Len(sig) # SigLen
             THEN [sig |-> EmptyStr, err |-> Err("invalid signature length")]
             ELSE IF ~n.ok
             THEN [sig |-> EmptyStr, err |-> Err("invalid v")]
             ELSE [sig |-> Encode([sig EXCEPT ![SigLen] = n.v]),
                   err |-> NilErr]

\* "\x19Ethereum Signed Message:\n" as bytes
EthereumPrefix ==
    <<25, 69, 116, 104, 101, 114, 101, 117, 109, 32, 83, 105, 103, 110, 101,
      100, 32, 77, 101, 115, 115, 97, 103, 101, 58, 10>>

\* fmt.Sprintf("%d", n) as bytes
RECURSIVE DecimalBytes(_)
DecimalBytes(n) ==
    IF n < 10 THEN <<48 + n>>
    ELSE DecimalBytes(n \div 10) \o <<48 + (n % 10)>>

PersonalHash(message) ==
    Keccak256(EthereumPrefix \o DecimalBytes(Len(message)) \o message)

\* (a *IAccount) SignPersonal(message); SignMessage and SignBytes call it
SignPersonal(a, message) ==
    IF Len(message) = 0
    THEN [sig |-> EmptyStr, err |-> Err("message must not be empty")]
    ELSE SignHash(a, PersonalHash(message))

\* (a *IAccount) SignHex(hexString)
SignHex(a, hexString) ==
    LET d == Decode(hexString)
    IN  IF d.err # NilErr
        THEN [sig |-> EmptyStr, err |-> Wrap("decode hex string", d.err)]
        ELSE SignPersonal(a, d.val)

\* GetSignEIP712Hash: typed data is kept as the number of types and of
\* message entries, the primary type and whether HashStruct accepts it
GetSignEIP712Hash(td) ==
    IF td.primaryType = EmptyStr
    THEN [val |-> <<>>, err |-> Err("primaryType must not be empty")]
    ELSE IF td.messageLen = 0
    THEN [val |-> <<>>, err |-> Err("messageMap must not be empty")]
    ELSE IF td.typesLen = 0
    THEN [val |-> <<>>, err |-> Err("typeMap must not be empty")]
    ELSE IF ~td.hashable
    THEN [val |-> <<>>, err |-> Wrap("struct hash", Err("HashStruct"))]
    ELSE [val |-> Keccak256(<<25, 1>> \o Keccak256(<<td.domain>>)
                             \o Keccak256(<<td.typesLen, td.messageLen>>)),
          err |-> NilErr]

\* (a *IAccount) SignEIP712(...)
SignEIP712(a, td) ==
    LET h == GetSignEIP712Hash(td)
    IN  IF h.err # NilErr THEN [sig |-> EmptyStr, err |-> h.err]
        ELSE SignHash(a, h.val)

\* (a *IAccount) RecoverAddress(hash, signature): [addr, err]
RecoverAddress(a, hash, signature) ==
    IF Len(hash) # HashLen
    THEN [addr |-> ZeroAddress, err |-> Err("hash must be 32 bytes")]
    ELSE LET d == Decode(signature)
         IN  IF d.err # NilErr
             THEN [addr |-> ZeroAddress, err |-> Wrap("parse signature", d.err)]
             ELSE IF Len(d.val) # SigLen
             THEN [addr |-> ZeroAddress, err |-> Err("invalid signature length")]
             ELSE LET p == SigToPub(hash, d.val)
                  IN  IF p.err # NilErr
                      THEN [addr |-> ZeroAddress,
                            err |-> Wrap("recover public key", p.err)]
                      ELSE [addr |-> PubkeyToAddress(p.pub), err |-> NilErr]

\* (a *IAccount) VerifySignature(hash, signature): [ok, err]
VerifySignature(a, hash, signature) ==
    IF Len(hash) # HashLen
    THEN [ok |-> FALSE, err |-> Err("hash must be 32 bytes")]
    ELSE LET d == Decode(signature)
         IN  IF d.err # NilErr
             THEN [ok |-> FALSE, err |-> Wrap("parse signature", d.err)]
             ELSE IF Len(d.val) # SigLen
             THEN [ok |-> FALSE, err |-> Err("invalid signature length")]
             ELSE LET p == SigToPub(hash, d.val)
                  IN  IF p.err # NilErr
                      THEN [ok |-> FALSE,
                            err |-> Wrap("recover public key", p.err)]
                      ELSE [ok |-> PubkeyToAddress(p.pub) = a.address,
                            err |-> NilErr]

\* (a *IAccount) VerifyMessageSignature(message, signature)
VerifyMessageSignature(a, message, signature) ==
    VerifySignature(a, PersonalHash(message), signature)

\* inputs
HashInputs == {Rep(17, HashLen), Rep(34, HashLen), Rep(17, HashLen - 1)}
Messages == {<<>>, <<104, 105>>, <<97>>}
HexInputs ==
    {<<"0", "x", "6", "8", "6", "9">>, <<"6", "8", "6", "9">>, <<"0", "x">>,
     <<"0", "x", "6">>, <<"0", "X", "6", "1">>, <<>>}
TypedInputs ==
    {[primaryType |-> p, messageLen |-> m, typesLen |-> t, hashable |-> h,
      domain |-> 1] :
        p \in {EmptyStr, <<"M", "a", "i", "l">>}, m \in 0..1, t \in 0..1,
        h \in BOOLEAN}

\* the signature with its recovery byte as crypto.Sign gives it (0 or 1)
RawForm(hash, key) == Encode(CryptoSign(hash, key))
SignatureInputs(hashes) ==
    {SignHash(s, h).sig : s \in Signers, h \in hashes}
      \cup {RawForm(h, k) : k \in SignerKeys,
                            h \in {x \in hashes : Len(x) = HashLen}}
      \cup {<<"0", "x", "1", "b">>, <<"1", "b">>}

CallSignHash ==
    \E a \in Signers, hash \in HashInputs :
        LET r == SignHash(a, hash)
        IN  PureCall([fn |-> "SignHash", a |-> a, hash |-> hash],
                     [fn |-> "SignHash", sig |-> r.sig, err |-> r.err])

CallSignPersonal ==
    \E a \in Signers, message \in Messages,
       fn \in {"SignPersonal", "SignMessage", "SignBytes"} :
        LET r == SignPersonal(a, message)
        IN  PureCall([fn |-> fn, a |-> a, message |-> message],
                     [fn |-> fn, sig |-> r.sig, err |-> r.err])

CallSignHex ==
    \E a \in Signers, hexString \in HexInputs :
        LET r == SignHex(a, hexString)
        IN  PureCall([fn |-> "SignHex", a |-> a, hexString |-> hexString],
                     [fn |-> "SignHex", sig |-> r.sig, err |-> r.err])

CallSignEIP712 ==
    \E a \in Signers, td \in TypedInputs :
        LET r == SignEIP712(a, td)
        IN  PureCall([fn |-> "SignEIP712", a |-> a, td |-> td],
                     [fn |-> "SignEIP712", sig |-> r.sig, err |-> r.err])

CallVerifySignature ==
    \E a \in Signers, hash \in HashInputs,
       signature \in SignatureInputs(HashInputs) :
        LET r == VerifySignature(a, hash, signature)
        IN  PureCall([fn |-> "VerifySignature", a |-> a, hash |-> hash,
                      signature |-> signature],
                     [fn |-> "VerifySignature", ok |-> r.ok, err |-> r.err])

CallRecoverAddress ==
    \E a \in Signers, hash \in HashInputs,
       signature \in SignatureInputs(HashInputs) :
        LET r == RecoverAddress(a, hash, signature)
        IN  PureCall([fn |-> "RecoverAddress", a |-> a, hash |-> hash,
                      signature |-> signature],
                     [fn |-> "RecoverAddress", addr |-> r.addr, err |-> r.err])

CallVerifyMessageSignature ==
    \E a \in Signers, message \in Messages,
       signature \in SignatureInputs({PersonalHash(m) : m \in Messages}) :
        LET r == VerifyMessageSignature(a, message, signature)
        IN  PureCall([fn |-> "VerifyMessageSignature", a |-> a,
                      message |-> message, signature |-> signature],
                     [fn |-> "VerifyMessageSignature", ok |-> r.ok,
                      err |-> r.err])

\* ======================================================== top-level calls

\* the account after a construction that discovered chain id 1
Accounts == {[chainID |-> 1, address |-> AddrUpper]}

\* signed transactions a caller holds
TxSamples ==
    {LegacyTx(0, HexToAddress(AddrValid), 1, 1, 1, <<>>, acc.chainID),
     DynamicFeeTx(1, HexToAddress(AddrValid), 0, 2, 1, 2, <<1>>, acc.chainID)}

\* arguments callers pass
ToInputs == {EmptyStr, AddrValid, AddrShort}
GasLimits == 0..MaxGas
Prices == {Nil} \cup 0..MaxPrice
NonceOpts == {Nil} \cup 0..MaxNonce
\* a plain transfer, and a call or deployment carrying data
Payloads == {[value |-> 1, data |-> <<>>], [value |-> 0, data |-> <<1>>]}

StartCall(c, frame) ==
    /\ Idle
    /\ call' = c
    /\ stack' = <<frame>>
    /\ calls' = IF frame.fn \in Builders THEN <<CallEntry(frame.fn)>> ELSE calls
    /\ UNCHANGED <<aside, ret, rpcLog, sent, outcomes, sleeps, now, tickerC,
                   lastAnswer>>

CallSendTx ==
    \E t \in TxSamples :
        StartCall([fn |-> "SendTx", tx |-> t], SendTxFrame(t))

CallWaitForTransaction ==
    \E t \in TxSamples, c \in (0 - 1)..MaxConfirmations :
        StartCall([fn |-> "WaitForTransaction", txHash |-> Hash(t),
                   confirmations |-> c],
                  WaitForTransactionFrame(Hash(t), c))

CallSendTxWithRetry ==
    \E t \in TxSamples, n \in -1..MaxRetriesArg :
        StartCall([fn |-> "SendTxWithRetry", tx |-> t, maxRetries |-> n],
                  [fn |-> "SendTxWithRetry", pc |-> "loop", tx |-> t,
                   maxRetries |-> RetryLimit(n), i |-> 0, lastErr |-> NilErr])

CallProcessGasParams ==
    \E gasLimit \in GasLimits, gasPrice \in Prices, to \in ToInputs,
       p \in Payloads :
        StartCall([fn |-> "ProcessGasParams", gasLimit |-> gasLimit,
                   gasPrice |-> gasPrice, to |-> to],
                  ProcessGasParamsFrame(gasLimit, gasPrice, to, p.value,
                                        p.data))

CallBuildLegacy ==
    \E to \in ToInputs, p \in Payloads, gasLimit \in GasLimits,
       gasPrice \in Prices, nonceOpt \in NonceOpts :
        StartCall([fn |-> "BuildLegacy", pkg |-> "ievm", to |-> to,
                   gasLimit |-> gasLimit, gasPrice |-> gasPrice,
                   nonceOpt |-> nonceOpt],
                  BuildLegacyFrame(to, p.value, p.data, gasLimit, gasPrice,
                                   nonceOpt))

\* BuildLegacy of package evm called directly
CallEvmBuildLegacy ==
    \E to \in ToInputs, p \in Payloads, gasLimit \in GasLimits,
       gasPrice \in Prices, nonceOpt \in NonceOpts :
        StartCall([fn |-> "BuildLegacy", pkg |-> "evm", to |-> to,
                   gasLimit |-> gasLimit, gasPrice |-> gasPrice,
                   nonceOpt |-> nonceOpt],
                  EvmBuildLegacyFrame(to, p.value, p.data, gasLimit,
                                      gasPrice, nonceOpt))

CallBuildDynamic ==
    \E to \in ToInputs, p \in Payloads, gasLimit \in GasLimits,
       maxFeePerGas \in Prices, maxPriorityFeePerGas \in Prices,
       nonceOpt \in NonceOpts :
        StartCall([fn |-> "BuildDynamic", to |-> to, gasLimit |-> gasLimit,
                   maxFeePerGas |-> maxFeePerGas,
                   maxPriorityFeePerGas |-> maxPriorityFeePerGas,
                   nonceOpt |-> nonceOpt],
                  BuildDynamicFrame(to, p.value, p.data, gasLimit,
                                    maxFeePerGas, maxPriorityFeePerGas,
                                    nonceOpt))

CallBuildTxWithGas ==
    \E to \in ToInputs, p \in Payloads, gasLimit \in GasLimits,
       gasPrice \in Prices, nonce \in NonceOpts :
        StartCall([fn |-> "BuildTxWithGas", to |-> to, gasLimit |-> gasLimit,
                   gasPrice |-> gasPrice, nonce |-> nonce],
                  BuildTxWithGasFrame(to, p.data,
                      IF p.value = 0 THEN Nil ELSE p.value,
                      gasLimit, gasPrice, nonce))

CallSendContractMethod ==
    \E contract \in ToInputs, packs \in BOOLEAN :
        StartCall([fn |-> "SendContractMethod", contract |-> contract,
                   packs |-> packs],
                  [fn |-> "SendContractMethod", pc |-> "start",
                   contract |-> contract, value |-> 0, packs |-> packs,
                   data |-> <<1>>, signed |-> NoTx])

\* transactions given to SendTxWithSmartGas: the samples and a signed
\* contract creation
SmartGasSamples ==
    TxSamples \cup {LegacyTx(0, NoAddress, 0, 2, 2, <<1>>, acc.chainID)}

CallSendTxWithSmartGas ==
    \E t \in SmartGasSamples :
        StartCall([fn |-> "SendTxWithSmartGas", tx |-> t],
                  [fn |-> "SendTxWithSmartGas", pc |-> "start", tx |-> t,
                   newTx |-> NoTx])

\* the four named strategies and a value that is none of them
Strategies == GasStrategyAuto..(GasStrategySlow + 1)

CallGetGasByStrategy ==
    \E strategy \in Strategies :
        StartCall([fn |-> "GetGasByStrategy", strategy |-> strategy],
                  [fn |-> "GetGasByStrategy", pc |-> "start",
                   strategy |-> strategy])

MnemonicInputs ==
    {EmptyStr, MnemonicGood, MnemonicOther, MnemonicBadChecksum,
     MnemonicTooShort}
HexKeyInputs ==
    {EmptyStr, KeyGood, KeyGood0x, KeyUpper, KeyLower, KeyShort, KeyNonHex,
     KeyZero, KeyOnlyPrefix}

\* a constructor is called, for the first time or again; the log of the
\* previous construction is dropped
StartConstruction(c, frame) ==
    /\ stack = <<>>
    /\ call.fn \in {"none"} \cup Constructors
    /\ Cardinality(constructed) < MaxConstructions
    /\ call' = c
    /\ stack' = <<frame>>
    /\ ret' = NoRet
    /\ rpcLog' = <<>>
    /\ UNCHANGED <<aside, calls, sent, outcomes, sleeps, now, tickerC,
                   lastAnswer>>

CallNewWithMnemonicIndex ==
    \E mnemonic \in MnemonicInputs, index \in -1..MaxIndex :
        StartConstruction(
            [fn |-> "NewWithMnemonicIndex", mnemonic |-> mnemonic,
             index |-> index],
            [fn |-> "NewWithMnemonicIndex", pc |-> "start",
             mnemonic |-> mnemonic, index |-> index, rpcURL |-> "rpcURL",
             key |-> Nil, address |-> Nil])

CallNewWithPrivateKey ==
    \E hexKey \in HexKeyInputs :
        StartConstruction(
            [fn |-> "NewWithPrivateKey", hexKey |-> hexKey],
            [fn |-> "NewWithPrivateKey", pc |-> "start", hexKey |-> hexKey,
             rpcURL |-> "rpcURL", key |-> Nil, address |-> Nil])

Init ==
    /\ acc \in Accounts
    /\ stack = <<>>
    /\ ret = NoRet
    /\ call = NoCall
    /\ calls = <<>>
    /\ rpcLog = <<>>
    /\ sent = <<>>
    /\ outcomes = <<>>
    /\ sleeps = <<>>
    /\ now = 0
    /\ tickerC = FALSE
    /\ lastAnswer = "none"
    /\ pendingNonce = 0
    /\ workers = [g \in Goroutines |-> IdleWorker]
    /\ constructed = {}

NextSendTx ==
    \/ CallSendTx
    \/ SendTx_Submit
    \/ SendTx_Query
    \/ SendTx_Select
    \/ AdvanceClock

NextRetry ==
    \/ CallSendTxWithRetry
    \/ SendTxWithRetry_Loop
    \/ SendTxWithRetry_AfterSend
    \/ SendTx_Submit
    \/ SendTx_Query
    \/ SendTx_Select
    \/ AdvanceClock

NextBuild ==
    \/ CallProcessGasParams
    \/ CallBuildLegacy
    \/ CallEvmBuildLegacy
    \/ CallBuildDynamic
    \/ CallBuildTxWithGas
    \/ CallSendContractMethod
    \/ ProcessGasParams_GasLimit
    \/ ProcessGasParams_GasPrice
    \/ BuildLegacy_Start
    \/ BuildLegacy_GasPrice
    \/ BuildLegacy_Finish
    \/ BuildDynamic_Start
    \/ BuildDynamic_TipCap
    \/ BuildDynamic_FeeCap
    \/ BuildDynamic_Finish
    \/ BuildTxWithGas_Start
    \/ BuildTxWithGas_AfterParams
    \/ BuildTxWithGas_AfterDynamic
    \/ BuildTxWithGas_AfterLegacy
    \/ SendContractMethod_Start
    \/ SendContractMethod_AfterDynamic
    \/ SendContractMethod_AfterLegacy
    \/ SendContractMethod_AfterSend
    \/ SendTx_Submit
    \/ SendTx_Query
    \/ SendTx_Select
    \/ AdvanceClock

NextSmartGas ==
    \/ CallSendTxWithSmartGas
    \/ SendTxWithSmartGas_Start
    \/ SendTxWithSmartGas_AfterFirst
    \/ SendTxWithSmartGas_AfterBuild
    \/ SendTxWithSmartGas_AfterSecond
    \/ ProcessGasParams_GasLimit
    \/ ProcessGasParams_GasPrice
    \/ BuildLegacy_Start
    \/ BuildLegacy_GasPrice
    \/ BuildLegacy_Finish
    \/ BuildDynamic_Start
    \/ BuildDynamic_TipCap
    \/ BuildDynamic_FeeCap
    \/ BuildDynamic_Finish
    \/ BuildTxWithGas_Start
    \/ BuildTxWithGas_AfterParams
    \/ BuildTxWithGas_AfterDynamic
    \/ BuildTxWithGas_AfterLegacy
    \/ SendTx_Submit
    \/ SendTx_Query
    \/ SendTx_Select
    \/ AdvanceClock

NextStrategy ==
    \/ CallGetGasByStrategy
    \/ GetGasByStrategy_Start
    \/ GetGasByStrategy_AfterOptimal
    \/ GetOptimalGasPrice_Base
    \/ GetOptimalGasPrice_AfterDynamic
    \/ GetDynamicGasPrice_Run

NextWorkers ==
    \/ \E g \in Goroutines : Worker_Start(g)
    \/ \E g \in Goroutines : Worker_ReadNonce(g)
    \/ \E g \in Goroutines : Worker_Sign(g)
    \/ \E g \in Goroutines : Worker_Submit(g)

NextConstruct ==
    \/ CallNewWithMnemonicIndex
    \/ CallNewWithPrivateKey
    \/ NewWithMnemonicIndex_Derive
    \/ NewWithPrivateKey_Decode
    \/ Constructor_Dial
    \/ Constructor_ChainID

NextWait ==
    \/ CallWaitForTransaction
    \/ WaitForTransaction_Select
    \/ WaitForTransaction_Receipt
    \/ WaitForTransaction_Block
    \/ AdvanceClock_Confirm

NextPure ==
    \/ CallIsValidAddress
    \/ CallToDecimalsFloat
    \/ CallSignHash
    \/ CallSignPersonal
    \/ CallSignHex
    \/ CallSignEIP712
    \/ CallVerifySignature
    \/ CallRecoverAddress
    \/ CallVerifyMessageSignature

Next ==
    \/ NextPure
    \/ NextWait
    \/ NextConstruct
    \/ NextWorkers
    \/ NextStrategy
    \/ CallSendTx
    \/ CallSendTxWithRetry
    \/ SendTxWithRetry_Loop
    \/ SendTxWithRetry_AfterSend
    \/ CallSendTxWithSmartGas
    \/ SendTxWithSmartGas_Start
    \/ SendTxWithSmartGas_AfterFirst
    \/ SendTxWithSmartGas_AfterBuild
    \/ SendTxWithSmartGas_AfterSecond
    \/ NextBuild

\* every operation of the model
Spec == Init /\ [][Next]_vars
\* SendTx called on its own
SpecSendTx == Init /\ [][NextSendTx]_vars
SpecWait == Init /\ [][NextWait]_vars
\* SendTxWithRetry and the SendTx calls it makes
SpecRetry == Init /\ [][NextRetry]_vars
\* parameter resolution, the builders and the calls that combine them
SpecBuild == Init /\ [][NextBuild]_vars
\* SendTxWithSmartGas with the rebuild and the SendTx calls it makes
SpecSmartGas == Init /\ [][NextSmartGas]_vars
\* GetGasByStrategy and the price functions it calls
SpecStrategy == Init /\ [][NextStrategy]_vars
\* goroutines building and sending from one account
SpecWorkers == Init /\ [][NextWorkers]_vars
\* the two constructors, called one after the other
SpecConstruct == Init /\ [][NextConstruct]_vars
\* the pure functions, each applied to one input
SpecPure == Init /\ [][NextPure]_vars

\* SendTx with time passing, the receipt call returning and a ready select
\* being taken
LiveSendTx ==
    /\ SpecSendTx
    /\ WF_vars(AdvanceClock)
    /\ WF_vars(SendTx_Query)
    /\ WF_vars(SendTx_Select)

\* ================================================================ claims

SendTxReturned == ret.fn = "SendTx"
\* the transaction the last SendTx was given, and whether the node took it
LastSent == sent[Len(sent)]
\* a receipt with status=failed was found
MinedButFailed == SendTxReturned /\ LastSent.ok /\ lastAnswer = "Failed"
\* SendTx stopped because the deadline passed with no receipt found
DeadlineStop ==
    /\ SendTxReturned
    /\ LastSent.ok
    /\ CtxDone
    /\ lastAnswer \in {"NotFound", "DeadlineExceeded"}

\* C1: the error SendTx returns for a receipt with status=failed is the
\* "execution failed" error, and the error it returns when the deadline passes
\* with no receipt found is never that error (nor nil): the two situations
\* never end in the same error.
C1_FailedDistinctFromTimeout ==
    /\ MinedButFailed =>
          ret.err = ErrStatusFailed(Hash(LastSent.tx))
    /\ DeadlineStop =>
          /\ ret.err # NilErr
          /\ ret.err.msg # ErrStatusFailed(Hash(LastSent.tx)).msg

C1_Witness ==
    /\ MinedButFailed
    /\ ret.err.msg = <<"execution failed (status=0)">>

\* C2: SendTx returns a nil error exactly when its last receipt query
\* returned a receipt with status success, and then returns the hash of the
\* transaction it submitted.
C2_NilIffSuccessReceipt ==
    SendTxReturned =>
        /\ (ret.err = NilErr) <=> (LastSent.ok /\ lastAnswer = "Success")
        /\ ret.err = NilErr => ret.hash = Hash(LastSent.tx)

C2_Witness ==
    /\ SendTxReturned
    /\ lastAnswer = "Success"
    /\ ret.err = NilErr

\* C3: whenever SendTx stops because the deadline passed while the receipt was
\* still not found, it returns the timeout error carrying the transaction
\* hash.
C3_DeadlineGivesTimeoutError ==
    DeadlineStop => ret.err = ErrTimeout(Hash(LastSent.tx))

\* C4: once SendTx has submitted and polls, it eventually returns.
C4_SendTxReturns ==
    (Len(stack) > 0 /\ Top.fn = "SendTx" /\ Top.pc # "submit")
        ~> SendTxReturned

C4_Witness ==
    /\ SendTxReturned
    /\ CtxDone
    /\ lastAnswer = "NotFound"
    /\ ret.err = ErrTimeout(Hash(LastSent.tx))

\* C5: when SendTransaction rejects the transaction, SendTx returns that
\* error with the zero hash, having made no receipt query and no second
\* submission; the poll loop is only ever entered after an accepted
\* submission.
C5_RejectionReturnsAtOnce ==
    /\ (SendTxReturned /\ ~LastSent.ok) =>
          /\ ret.hash = ZeroHash
          /\ ret.err = ErrSubmit
          /\ lastAnswer = "none"
          /\ (call.fn = "SendTx" => Len(sent) = 1)
    /\ (Len(stack) > 0 /\ Top.fn = "SendTx" /\ Top.pc # "submit") =>
          LastSent.ok

C5_Witness ==
    /\ SendTxReturned
    /\ ~LastSent.ok
    /\ ret.err = ErrSubmit

\* C6: every transaction BuildDynamic returns has feeCap >= tipCap.
C6_FeeCapAtLeastTipCap ==
    \A k \in DOMAIN calls :
        (calls[k].fn = "BuildDynamic" /\ calls[k].done
            /\ calls[k].err = NilErr) =>
                calls[k].tx.feeCap >= calls[k].tx.tipCap

\* the gas estimate asked for by ProcessGasParams failed
EstimateFailedInParams ==
    /\ ret.fn = "ProcessGasParams"
    /\ call.gasLimit = 0
    /\ Len(rpcLog) >= 1
    /\ rpcLog[1].name = "EstimateGas"
    /\ ~rpcLog[1].ok

\* C7: ProcessGasParams called with gasLimit = 0 whose gas estimate fails
\* returns no GasParams and the estimate's error wrapped once; a GasParams it
\* does return never has gas limit 0.
C7_EstimateErrorPropagated ==
    /\ EstimateFailedInParams =>
          /\ ret.params = NoParams
          /\ Len(ret.err.msg) = 2
          /\ ret.err.msg[1] = "estimate gas limit failed"
          /\ Len(rpcLog) = 1
    /\ (ret.fn = "ProcessGasParams" /\ ret.params # NoParams) =>
          /\ ret.err = NilErr
          /\ ret.params.GasLimit # 0

C7_Witness ==
    /\ EstimateFailedInParams
    /\ rpcLog[1].remote
    /\ ret.params = NoParams

\* C8: BuildTxWithGas and SendContractMethod call BuildDynamic first, call
\* BuildLegacy only after BuildDynamic returned an error, call each at most
\* once, and when BuildDynamic succeeded the transaction they return (and
\* SendContractMethod submits) is the dynamic-fee one it built.
C8_DynamicFirstLegacyOnError ==
    call.fn \in {"BuildTxWithGas", "SendContractMethod"} =>
        /\ Len(calls) <= 2
        /\ Len(calls) >= 1 => calls[1].fn = "BuildDynamic"
        /\ Len(calls) = 2 =>
              /\ calls[2].fn = "BuildLegacy"
              /\ calls[1].done
              /\ calls[1].err # NilErr
        /\ (Len(calls) >= 1 /\ calls[1].done /\ calls[1].err = NilErr) =>
              /\ calls[1].tx.type = "dynamic"
              /\ \A k \in DOMAIN sent : sent[k].tx = calls[1].tx
              /\ Done =>
                    IF call.fn = "BuildTxWithGas"
                    THEN ret.tx = calls[1].tx /\ ret.err = NilErr
                    ELSE ret.tx # NoTx => ret.tx = calls[1].tx

C8_Witness ==
    /\ Done
    /\ call.fn = "BuildTxWithGas"
    /\ Len(calls) = 2
    /\ calls[2].err = NilErr
    /\ ret.tx = calls[2].tx

\* C9: if an EstimateGas call made while serving SendContractMethod fails,
\* SendContractMethod submits no transaction and returns an error.
C9_FailedEstimateNeverMasked ==
    (call.fn = "SendContractMethod"
        /\ \E k \in DOMAIN rpcLog :
              rpcLog[k].name = "EstimateGas" /\ ~rpcLog[k].ok) =>
            /\ sent = <<>>
            /\ Done => ret.err # NilErr

\* the number of attempts SendTxWithRetry(tx, n) may make
AttemptLimit == IF call.maxRetries <= 0 THEN 3 ELSE call.maxRetries
FailedAttempts == Cardinality({k \in DOMAIN outcomes : outcomes[k] # NilErr})

\* C10: SendTxWithRetry(tx, n) submits only tx, makes at most n attempts (3
\* when n <= 0), makes no attempt after one that succeeded and returns its
\* hash, fails only after all attempts failed, and sleeps k seconds after the
\* k-th failed attempt (loop index k-1) unless that attempt was the last.
C10_RetrySameTxLinearBackoff ==
    call.fn = "SendTxWithRetry" =>
        /\ \A k \in DOMAIN sent : sent[k].tx = call.tx
        /\ Len(sent) <= AttemptLimit
        /\ \A k \in DOMAIN outcomes :
              k < Len(outcomes) => outcomes[k] # NilErr
        /\ \A k \in DOMAIN sleeps : sleeps[k] = k
        /\ Len(sleeps) <= AttemptLimit - 1
        /\ Len(sleeps) <= FailedAttempts
        /\ Done =>
              /\ Len(outcomes) >= 1
              /\ IF outcomes[Len(outcomes)] = NilErr
                 THEN /\ ret.err = NilErr
                      /\ ret.hash = Hash(call.tx)
                      /\ Len(sleeps) = Len(outcomes) - 1
                 ELSE /\ ret.err # NilErr
                      /\ ret.hash = ZeroHash
                      /\ Len(outcomes) = AttemptLimit
                      /\ Len(sleeps) = AttemptLimit - 1

C10_Witness ==
    /\ Done
    /\ call.fn = "SendTxWithRetry"
    /\ call.maxRetries <= 0
    /\ Len(outcomes) = 3
    /\ sleeps = <<1, 2>>
    /\ ret.err # NilErr

\* C11: SendTxWithRetry makes no further submission after an attempt that the
\* node rejected at submission or that was mined with status=failed; it
\* resubmits only after an attempt that left the transaction unmined.
C11_ResubmitOnlyWhenUnmined ==
    call.fn = "SendTxWithRetry" =>
        \A k \in DOMAIN outcomes :
            (k + 1 \in DOMAIN sent) =>
                outcomes[k].msg \notin {ErrSubmit.msg,
                                        ErrStatusFailed(ZeroHash).msg}

\* tx.GasPrice(): the gas price of a legacy transaction, the fee cap of a
\* dynamic-fee one
GasPriceOf(t) == IF t.type = "legacy" THEN t.gasPrice ELSE t.feeCap

\* C12: the transaction SendTxWithSmartGas resubmits after a failed first
\* SendTx has a gas price (fee cap for a dynamic-fee transaction) strictly
\* higher than that of the original transaction.
C12_RebuiltPriceHigher ==
    (call.fn = "SendTxWithSmartGas" /\ Len(sent) = 2) =>
        GasPriceOf(sent[2].tx) > GasPriceOf(sent[1].tx)

\* C13: one call of SendTxWithSmartGas submits at most two transactions; the
\* first is the original; a second is submitted only after the first SendTx
\* returned an error, and it has the nonce, recipient, value, data and gas
\* limit of the original.
C13_AtMostOneRebuildSameFields ==
    call.fn = "SendTxWithSmartGas" =>
        /\ Len(sent) <= 2
        /\ Len(sent) >= 1 => sent[1].tx = call.tx
        /\ Len(sent) = 2 =>
              /\ outcomes[1] # NilErr
              /\ sent[2].tx.nonce = call.tx.nonce
              /\ sent[2].tx.to = call.tx.to
              /\ sent[2].tx.value = call.tx.value
              /\ sent[2].tx.data = call.tx.data
              /\ sent[2].tx.gas = call.tx.gas

C13_Witness ==
    /\ Done
    /\ call.fn = "SendTxWithSmartGas"
    /\ call.tx.nonce = 1
    /\ Len(sent) = 2
    /\ sent[2].tx # sent[1].tx
    /\ sent[2].tx.nonce = 1
    /\ ret.fn = "SendTxWithSmartGas"

\* the call in progress was given a non-empty `to` that is not an address
InvalidToGiven ==
    \/ /\ call.fn \in {"BuildLegacy", "BuildDynamic", "BuildTxWithGas"}
       /\ call.to # EmptyStr
       /\ ~IsValidAddress(call.to)
    \/ /\ call.fn = "SendContractMethod"
       /\ call.contract # EmptyStr
       /\ ~IsValidAddress(call.contract)

\* C14: a building path given a non-empty invalid `to` makes no call to the
\* node and submits nothing, and the error it returns names that address,
\* whatever gas arguments are explicit or left to be resolved.
C14_InvalidToRejectedBeforeNetwork ==
    InvalidToGiven =>
        /\ \A k \in DOMAIN rpcLog : ~rpcLog[k].remote
        /\ sent = <<>>
        /\ Done =>
              /\ ret.err # NilErr
              /\ ret.err.addr =
                    IF call.fn = "SendContractMethod"
                    THEN call.contract ELSE call.to

\* a builder called on behalf of the call in progress returned a transaction
Built(k) ==
    /\ call.fn \in {"BuildLegacy", "BuildDynamic", "BuildTxWithGas"}
    /\ calls[k].done
    /\ calls[k].err = NilErr

\* C15: a transaction BuildLegacy or BuildDynamic returns (directly or to
\* BuildTxWithGas, which returns it unchanged) has no `to` when they were
\* called with an empty `to` and non-empty data, and has exactly the given
\* address as `to` when they were called with a valid non-empty `to`.
C15_EmptyToCreatesElseAddressed ==
    /\ \A k \in DOMAIN calls :
          Built(k) =>
              /\ (call.to = EmptyStr /\ calls[k].tx.data # <<>>) =>
                    calls[k].tx.to = NoAddress
              /\ call.to # EmptyStr =>
                    /\ IsValidAddress(call.to)
                    /\ calls[k].tx.to = HexToAddress(call.to)
    /\ (Done /\ call.fn = "BuildTxWithGas" /\ ret.err = NilErr) =>
          ret.tx = calls[Len(calls)].tx

\* floor(s * pct / 100), defined by its bounds
FloorPct(s, pct) ==
    CHOOSE n \in 0..(2 * s) : n * 100 <= s * pct /\ (n + 1) * 100 > s * pct

\* every gas-price query of the call was answered, and with the price s
AllQuoted(s) ==
    \A k \in DOMAIN rpcLog : rpcLog[k].ok /\ rpcLog[k].val = s

\* the price the strategy presets prescribe for a suggested price s
PresetPrice(strategy, s) ==
    CASE strategy = GasStrategyFast -> FloorPct(s, 150)
      [] strategy = GasStrategySlow -> FloorPct(s, 80)
      [] strategy = GasStrategyAuto ->
            IF FloorPct(s, 110) > s THEN FloorPct(s, 110) ELSE s
      [] OTHER -> s

\* C16: when the node quotes the gas price s, GetGasByStrategy returns
\* floor(s*150/100) for Fast, floor(s*80/100) for Slow, s for Standard,
\* max(s, floor(s*110/100)) for Auto and s for a value that is no strategy,
\* with a nil error.
C16_StrategyPrices ==
    (Done /\ call.fn = "GetGasByStrategy") =>
        \A s \in 0..MaxQuote :
            AllQuoted(s) =>
                /\ ret.err = NilErr
                /\ ret.price = PresetPrice(call.strategy, s)

C16_Witness ==
    /\ Done
    /\ call.fn = "GetGasByStrategy"
    /\ call.strategy = GasStrategyAuto
    /\ Len(rpcLog) = 3
    /\ AllQuoted(10)
    /\ ret.price = 11

\* C17: nothing serializes nonce acquisition: a goroutine that is about to
\* read the pending nonce can always do so, whatever the other goroutines
\* using the account are doing, also while another one holds a nonce it has
\* read and not yet used.
C17_NonceReadNotSerialized ==
    \A g \in Goroutines :
        workers[g].pc = "nonce" => ENABLED Worker_ReadNonce(g)

\* two sends collided: both goroutines signed a transaction with the same
\* nonce, the node took one and rejected the other
C17_Witness ==
    \E g, h \in Goroutines :
        /\ g # h
        /\ workers[g].pc = "done" /\ workers[h].pc = "done"
        /\ workers[g].mode = "send" /\ workers[h].mode = "send"
        /\ workers[g].tx # NoTx /\ workers[h].tx # NoTx
        /\ workers[g].tx # workers[h].tx
        /\ workers[g].tx.nonce = workers[h].tx.nonce
        /\ workers[g].err = NilErr
        /\ workers[h].err = ErrSubmit

ConstructorDone == Done /\ call.fn \in Constructors

\* C18: a construction that opened the connection succeeds whatever the
\* chain-id query answers, with ChainID 0 when the query failed and the
\* reported id when it succeeded; a construction that touched the network
\* fails only when the dial failed.
C18_ChainIDDiscoveryNeverFatal ==
    ConstructorDone =>
        /\ (Len(rpcLog) >= 1 /\ rpcLog[1].ok) =>
              /\ Len(rpcLog) = 2
              /\ rpcLog[2].name = "ChainID"
              /\ ret.err = NilErr
              /\ ret.account # NoAccount
              /\ ret.account.ChainID =
                    IF rpcLog[2].ok THEN rpcLog[2].val ELSE 0
        /\ (Len(rpcLog) >= 1 /\ ret.err # NilErr) =>
              /\ Len(rpcLog) = 1
              /\ rpcLog[1].name = "DialContext"
              /\ ~rpcLog[1].ok

C18_Witness ==
    /\ ConstructorDone
    /\ Len(rpcLog) = 2
    /\ ~rpcLog[2].ok
    /\ ret.err = NilErr
    /\ ret.account.ChainID = 0

\* the constructor was given an empty or checksum-invalid mnemonic, or an
\* empty or undecodable key
BadConstructionInput ==
    \/ /\ call.fn = "NewWithMnemonicIndex"
       /\ call.mnemonic \in {EmptyStr, MnemonicBadChecksum}
    \/ /\ call.fn = "NewWithPrivateKey"
       /\ call.hexKey \in {EmptyStr, KeyShort, KeyNonHex, KeyOnlyPrefix}

\* C19: a constructor given such an input never dials or queries the
\* endpoint, and returns an error and no account.
C19_BadInputRejectedOffline ==
    BadConstructionInput =>
        /\ rpcLog = <<>>
        /\ \A r \in constructed : r.call # call
        /\ Done =>
              /\ ret.err # NilErr
              /\ ret.account = NoAccount

C19_Witness ==
    /\ Done
    /\ call.fn = "NewWithMnemonicIndex"
    /\ call.mnemonic = MnemonicBadChecksum
    /\ ret.err = Err("invalid mnemonic")
    /\ rpcLog = <<>>

\* C20: two accounts constructed from the same input (the same mnemonic and
\* index, or the same key string) have the same private key and the same
\* address, whatever the endpoint answered to each construction.
C20_KeyAndAddressFromInputAlone ==
    \A a, b \in constructed :
        a.call = b.call =>
            /\ a.account.key = b.account.key
            /\ a.account.address = b.account.address

C20_Witness ==
    \E a, b \in constructed :
        /\ a.call = b.call
        /\ a.call.fn = "NewWithMnemonicIndex"
        /\ a.call.index >= 0
        /\ a.account.ChainID = 0
        /\ b.account.ChainID # 0
        /\ a.account.key = b.account.key

\* the string starts with "0x"
Has0x(x) == Len(x) >= 2 /\ x[1] = "0" /\ x[2] = "x"
\* the characters after the first two are all hex digits
HexAfterPrefix(x) == \A k \in 3..Len(x) : x[k] \in HexDigits

\* C21: IsValidAddress is true for "0x" followed by exactly 40 hex digits of
\* either case, and false for 39 or 41 digits after the prefix, for a string
\* without the "0x" prefix, for the empty string and for a string with a
\* character that is no hex digit.
C21_AddressPattern ==
    call.fn = "IsValidAddress" =>
        /\ (Has0x(call.x) /\ Len(call.x) = 42 /\ HexAfterPrefix(call.x)) =>
              ret.ok
        /\ (Has0x(call.x) /\ Len(call.x) \in {41, 43}) => ~ret.ok
        /\ ~Has0x(call.x) => ~ret.ok
        /\ call.x = EmptyStr => ~ret.ok
        /\ ~HexAfterPrefix(call.x) => ~ret.ok

C21_Witness ==
    /\ call.fn = "IsValidAddress"
    /\ Len(call.x) = 42
    /\ call.x[3] = "F"
    /\ call.x[42] = "F"
    /\ ret.ok

RECURSIVE Pow10(_)
Pow10(n) == IF n = 0 THEN 1 ELSE 10 * Pow10(n - 1)

\* the number a string of digits denotes, most significant digit first
RECURSIVE NumberOf(_)
NumberOf(s) ==
    IF s = <<>> THEN 0
    ELSE DigitVal(s[1]) * Pow10(Len(s) - 1) + NumberOf(Tail(s))

\* the integer whose digits are the integer digits of p followed by exactly d
\* fractional digits (padded with zeros, or cut), with the sign of p
ScaledInteger(p, d) ==
    LET magnitude ==
            NumberOf(p.int) * Pow10(d)
              + (IF Len(p.frac) <= d
                 THEN NumberOf(p.frac) * Pow10(d - Len(p.frac))
                 ELSE NumberOf(p.frac) \div Pow10(Len(p.frac) - d))
    IN  IF p.sign = <<"-">> THEN 0 - magnitude ELSE magnitude

\* C22: for a decimal string and d >= 0, ToDecimalsFloat returns, with no
\* error, the integer written as the integer digits followed by exactly d
\* fractional digits, the fraction padded with zeros when shorter than d and
\* truncated when longer, with the sign of the string.
C22_DecimalsPadOrTruncate ==
    (call.fn = "ToDecimalsFloat" /\ call.parts.decimal) =>
        /\ ret.err = NilErr
        /\ ret.val = ScaledInteger(call.parts, call.decimals)

\* "1.23" at 6 decimal places gives 1230000
C22_Witness ==
    /\ call.fn = "ToDecimalsFloat"
    /\ call.s = <<"1", ".", "2", "3">>
    /\ call.decimals = 6
    /\ ret.val = 1230000

OneDot234567At4 ==
    /\ call.fn = "ToDecimalsFloat"
    /\ call.s = <<"1", ".", "2", "3", "4", "5", "6", "7">>
    /\ call.decimals = 4

\* C23 as stated: "1.234567" at 4 decimal places yields 1230000.
C23_Stated ==
    OneDot234567At4 => ret.val = 1230000

\* C23: "1.234567" at 4 decimal places yields 12345, the digits 1.2345 left
\* after truncation, with no error.
C23_TruncatedExample ==
    OneDot234567At4 => (ret.val = 12345 /\ ret.err = NilErr)

C23_Witness ==
    /\ OneDot234567At4
    /\ ret.val = 12345

SigningCalls ==
    {"SignHash", "SignPersonal", "SignMessage", "SignBytes", "SignHex",
     "SignEIP712"}

\* the last two characters of a hex string
LastByteHex(sig) == SubSeq(sig, Len(sig) - 1, Len(sig))

\* C24: every signature SignHash returns, directly or through SignPersonal,
\* SignMessage, SignBytes, SignHex and SignEIP712, is 65 bytes long (0x and
\* 130 hex digits) and ends in the recovery byte 27 (1b) or 28 (1c), never
\* 0 or 1.
C24_RecoveryByte27Or28 ==
    (call.fn \in SigningCalls /\ ret.err = NilErr) =>
        /\ Len(ret.sig) = 2 + 2 * 65
        /\ ret.sig[1] = "0" /\ ret.sig[2] = "x"
        /\ LastByteHex(ret.sig) \in {<<"1", "b">>, <<"1", "c">>}

\* a typed-data signature was returned
C24_Witness ==
    /\ call.fn = "SignEIP712"
    /\ ret.err = NilErr
    /\ LastByteHex(ret.sig) \in {<<"1", "b">>, <<"1", "c">>}

\* C30: for every 32-byte hash h, VerifySignature(h, SignHash(h)) is true
\* with no error and RecoverAddress(h, SignHash(h)) is the account's own
\* address; VerifyMessageSignature(m, SignMessage(m)) is true for every
\* non-empty message m.
C30_SignVerifyRoundTrip ==
    /\ (/\ call.fn = "VerifySignature"
        /\ Len(call.hash) = 32
        /\ call.signature = SignHash(call.a, call.hash).sig)
         => (ret.ok /\ ret.err = NilErr)
    /\ (/\ call.fn = "RecoverAddress"
        /\ Len(call.hash) = 32
        /\ call.signature = SignHash(call.a, call.hash).sig)
         => (ret.addr = call.a.address /\ ret.err = NilErr)
    /\ (/\ call.fn = "VerifyMessageSignature"
        /\ call.message # <<>>
        /\ call.signature = SignPersonal(call.a, call.message).sig)
         => (ret.ok /\ ret.err = NilErr)

\* SendTx makes a receipt query in this step
ReceiptQueryStep == Running("SendTx", "query") /\ stack' # stack

\* C25: while SendTx polls, a receipt query that fails with an error other
\* than NotFound makes SendTx return in that very step, with that error and
\* the hash of the transaction: the error is not retried and no further
\* query is made.
C25_QueryErrorReturnedAtOnce ==
    [][(ReceiptQueryStep /\ ReceiptErr(lastAnswer') \notin {NilErr, ErrNotFound})
          => /\ stack' = Pop
             /\ ret' = [fn |-> "SendTx", hash |-> Hash(Top.tx),
                        err |-> ReceiptErr(lastAnswer')]]_vars

\* SendTx returned the transport error of a receipt query
C25_Witness ==
    /\ SendTxReturned
    /\ lastAnswer = "TransportErr"
    /\ ret.err = ErrTransport
    /\ ret.hash = Hash(LastSent.tx)

\* C26: SendTxWithSmartGas never panics: when the first send of a
\* contract-creation transaction (no recipient) fails, the call ends with an
\* error or goes on to resubmit a rebuilt transaction; the absent recipient
\* is not dereferenced.
C26_NoPanicOnContractCreation ==
    (call.fn = "SendTxWithSmartGas" /\ call.tx.to = NoAddress) =>
        ret.fn # "panic"

WaitReturned == ret.fn = "WaitForTransaction"

\* WaitForTransaction makes its check (receipt, then block number) in this step
ConfirmCheckStep ==
    /\ Len(stack) > 0
    /\ Top.fn = "WaitForTransaction"
    /\ Top.pc \in {"receipt", "block"}
    /\ stack' # stack

\* the check of this step found no receipt, or too few confirmations
CheckUnsatisfied ==
    \/ lastAnswer'.receipt = Nil
    \/ /\ lastAnswer'.latest # Nil
       /\ lastAnswer'.latest - lastAnswer'.receipt
              < (IF call.confirmations < 1 THEN 1 ELSE call.confirmations)

\* a receipt is returned only with enough confirmations at the last check
C27_ReceiptOnlyWhenConfirmed ==
    (WaitReturned /\ ret.receipt # NoReceipt) =>
        /\ ret.err = NilErr
        /\ ret.receipt.block = lastAnswer.receipt
        /\ lastAnswer.latest # Nil
        /\ lastAnswer.latest - lastAnswer.receipt
              >= (IF call.confirmations < 1 THEN 1 ELSE call.confirmations)

\* a return after the deadline passed is the timeout, with no receipt
C27_TimeoutAfterDeadline ==
    (WaitReturned /\ ConfirmCtxDone) =>
        /\ ret.receipt = NoReceipt
        /\ ret.err = ErrConfirmTimeout(call.txHash)

\* the call goes on polling after a check that was not satisfied
C27_KeepsPolling ==
    [][(ConfirmCheckStep /\ CheckUnsatisfied) => Len(stack') = Len(stack)]_vars

\* C27: WaitForTransaction(hash, c) returns a receipt only if, at its last
\* check, latestBlockNumber - receipt.blockNumber >= max(c, 1); while that
\* does not hold or the receipt cannot be fetched it keeps polling; once its
\* deadline has passed it returns no receipt and the timeout error.
C27_WaitForConfirmations ==
    /\ [](C27_ReceiptOnlyWhenConfirmed /\ C27_TimeoutAfterDeadline)
    /\ C27_KeepsPolling

\* C28: whenever SendContractMethod has submitted a transaction that the
\* node accepted, it returns that signed transaction, also when the wait for
\* the receipt ends in a timeout or the receipt reports failure; it returns
\* a nil transaction only when nothing was submitted.
C28_SubmittedTxReturned ==
    (call.fn = "SendContractMethod" /\ ret.fn = "SendContractMethod") =>
        /\ \A k \in DOMAIN sent : sent[k].ok => ret.tx = sent[k].tx
        /\ ret.tx = NoTx => \A k \in DOMAIN sent : ~sent[k].ok

\* C29: when the caller passes a gas price (non-nil, and not the 0 that
\* stands for "resolve it") to BuildTxWithGas, the transaction built is
\* priced at exactly that gas price, and no price is asked of the node; only
\* a nil gas price leads to a price resolved from the node's suggestions.
C29_GivenGasPriceUsed ==
    (/\ call.fn = "BuildTxWithGas"
     /\ ret.fn = "BuildTxWithGas"
     /\ ret.err = NilErr
     /\ call.gasPrice \notin {Nil, 0}) =>
        /\ GasPriceOf(ret.tx) = call.gasPrice
        /\ \A k \in DOMAIN rpcLog :
              rpcLog[k].name \notin {"SuggestGasPrice", "SuggestGasTipCap"}

====
